---- MODULE Spec2Model ----
(***************************************************************************)
(* Research pipeline of crewai/backend: the LangGraph graph built by       *)
(* build_research_graph, its driver run_research, the service method       *)
(* ResearchService.generate_research with its progress-animation thread,   *)
(* the SSE transport stream_events of main.py with the store's get and     *)
(* delete endpoints, CrewService.generate_research with its simulated      *)
(* progress, and the looping graph of the LangGraph masterclass; then the  *)
(* agents of ai-agents and learn/04-agents (SupportAgent.chat, the         *)
(* tool-execution loops, create_support_ticket) and transform_stream of    *)
(* the monarch backend.                                                    *)
(*                                                                         *)
(* Text values (prompts, LLM outputs) are flat sequences of tokens: the    *)
(* output of a deterministic call is the call's tag followed by what the   *)
(* call read, so two outputs are equal exactly when they were computed     *)
(* from equal inputs.                                                      *)
(***************************************************************************)
EXTENDS Integers, Sequences, FiniteSets, Bags, TLC

VARIABLES
    \* ---- caller input of generate_research
    input, mode,
    \* ---- the world: what a DDGS search of each query does (fixed per behaviour)
    backend,
    \* ---- langgraph_pipeline module state
    cache,
    \* ---- one graph execution (research_graph.stream / research_graph.invoke)
    pass, frontier, nstat, gstate, writes, updates,
    \* ---- run_research locals
    completed_nodes, result,
    \* ---- generate_research: main thread
    pc, progress_state, final_content, db,
    \* ---- generate_research: run_progress_animation thread
    apc, snapshot, agent_progress, agent_phase, pending,
    \* ---- generate_research: index of the "ensure all agents show as complete" loop
    ens,
    \* ---- events handed to callback, in order
    log,
    \* ---- history of the run (not program state)
    state1, state2, failedNode, everStarted, nruns,
    \* ---- main.py stream_events: the queue, the run_crew thread, the generator
    event_queue, tpc, emitted, cpc, yielded,
    \* ---- main.py delete_research: the ids of the rows deleted so far (history)
    deleted,
    \* ---- a second generate_research call on the same service and compiled graph
    o_input, o_mode, o_pass, o_frontier, o_done, o_state, o_writes, o_log, o_result,
    \* ---- crew_service.py generate_research: progress_controller, the tasks of
    \*      crew.kickoff() finished so far, run_sequential_progress and its locals,
    \*      advance_agents_periodically
    progress_controller, tasks_done, ppc, current_idx, progress, phase_index,
    wait_count, restarts, advpc, adv_i,
    \* ---- crew_service.py generate_research: the events handed to callback, as a bag
    sent,
    \* ---- 5-looping-graph.py: the script and the State of its graph
    lpc, lstate,
    \* ---- support_agent.py SupportAgent.chat: its locals, the evaluated attempts
    \*      so far (history), the value returned
    chat_pc, attempt, response, best_response, best_score, feedbacks, attempts,
    chat_returned,
    \* ---- the tool-execution loops (CareerAgent.chat, SupportAgent._generate_response,
    \*      Agent.run, react_agent, ProductionAgent.chat): which one runs, the
    \*      Agent's max_turns and conversation_history, the locals of the loop,
    \*      the value returned, and the history of the tool dispatches
    kind, max_turns, conversation_history, agent_pc, iteration, done, messages,
    tool_calls, last_content, agent_returned, raise_cause, llm_calls, runs, fed,
    dispatches,
    \* ---- support_agent.py create_support_ticket: the module globals, and per
    \*      chat session the position in the call, the value loaded by "+=", the
    \*      id put in the ticket, the calls made, and the calls returned (history)
    TICKET_ID, TICKETS, ticket_pc, loaded, ticket, ticket_calls, ticket_returns,
    \* ---- transformer.py transform_stream: its parameter variant, its position,
    \*      its locals, the events yielded so far, and whether the hashtag call
    \*      failed (history)
    variant, stream_pc, linkedin_content, whatsapp_content, hashtags, out,
    hashtag_failed

gvars == <<input, mode, backend, cache, pass, frontier, nstat, gstate, writes,
           updates, completed_nodes, result>>
svars == <<pc, progress_state, final_content, db, ens>>
avars == <<apc, snapshot, agent_progress, agent_phase, pending>>
hvars == <<state1, state2, failedNode, everStarted, nruns>>
\* the service and its pipeline
rvars == <<gvars, svars, avars, log, hvars>>
\* the SSE transport
tvars == <<event_queue, tpc, emitted, cpc, yielded>>
\* the second call
ovars == <<o_input, o_mode, o_pass, o_frontier, o_done, o_state, o_writes, o_log,
           o_result>>
\* CrewService
kvars == <<progress_controller, tasks_done, ppc, current_idx, progress, phase_index,
           wait_count, restarts, advpc, adv_i>>
\* the looping graph
lvars == <<lpc, lstate>>
\* SupportAgent.chat
chatvars == <<chat_pc, attempt, response, best_response, best_score, feedbacks,
              attempts, chat_returned>>
\* the tool-execution loops
agentvars == <<kind, max_turns, conversation_history, agent_pc, iteration, done,
               messages, tool_calls, last_content, agent_returned, raise_cause,
               llm_calls, runs, fed, dispatches>>
\* create_support_ticket
ticketvars == <<TICKET_ID, TICKETS, ticket_pc, loaded, ticket, ticket_calls,
                ticket_returns>>
\* transform_stream
streamvars == <<variant, stream_pc, linkedin_content, whatsapp_content, hashtags, out,
                hashtag_failed>>
\* the agent modules and the transformer
mvars == <<chatvars, agentvars, ticketvars, streamvars>>
\* what SupportAgent.chat leaves alone, and what the tool-execution loops do
notchat == <<rvars, tvars, deleted, ovars, kvars, sent, lvars, agentvars, ticketvars,
             streamvars>>
notagent == <<rvars, tvars, deleted, ovars, kvars, sent, lvars, chatvars, ticketvars,
              streamvars>>
notticket == <<rvars, tvars, deleted, ovars, kvars, sent, lvars, chatvars, agentvars,
               streamvars>>
notstream == <<rvars, tvars, deleted, ovars, kvars, sent, lvars, chatvars, agentvars,
               ticketvars>>
xvars == <<deleted, ovars, kvars, sent, lvars, mvars>>
vars == <<rvars, tvars, xvars>>

(***************************************************************************)
(* Inputs                                                                  *)
(***************************************************************************)
Topics == {"t1", "t2"}
Modes == {"gen-z", "analytical"}
Outcomes == {"hits", "empty", "raise"}

\* the three queries of strategist_node and the one of fact_checker_node
SearchKinds == <<"y2026", "latest_news", "trends">>
VerifyKind == "verify"
QueryKinds == {"y2026", "latest_news", "trends", "verify"}
Queries == QueryKinds \X Topics
\* the queries a run on topic t can issue
QueriesOf(t) == QueryKinds \X {t}

Empty == <<>>

(***************************************************************************)
(* duckduckgo_search with the module-level _search_cache                   *)
(***************************************************************************)
\* what the search returns for query q on a cache miss
SearchText(q) ==
    CASE backend[q] = "hits"  -> <<"results", q[1], q[2]>>
      [] backend[q] = "empty" -> <<"no_results", q[1], q[2]>>
      [] OTHER                -> <<"could_not_search", q[1], q[2]>>

CacheLookup(c, q) == c[q]

\* the value duckduckgo_search(q) returns when the cache is c
duckduckgo_search(c, q) ==
    IF CacheLookup(c, q) # Empty THEN CacheLookup(c, q) ELSE SearchText(q)

\* every result stored under the key of the first query of its topic
CacheKeyFixed(q) == <<"y2026", q[2]>>

\* a cache keyed by the kind of query alone, whatever the topic asked about
CacheKeyNoTopic(q) == <<q[1], "t1">>

\* the key of "_search_cache[query] = ..."
CacheKey(q) == q

\* the cache after duckduckgo_search(q): a hit or an exception leaves it alone
CacheAfter(c, q) ==
    IF CacheLookup(c, q) # Empty \/ backend[q] = "raise"
    THEN c
    ELSE [c EXCEPT ![CacheKey(q)] = SearchText(q)]

RECURSIVE CacheAfterAll(_, _)
CacheAfterAll(c, qs) ==
    IF qs = <<>> THEN c ELSE CacheAfterAll(CacheAfter(c, Head(qs)), Tail(qs))

(***************************************************************************)
(* The graph of build_research_graph                                       *)
(***************************************************************************)
Nodes == {"strategist", "writer", "fact_checker", "editor", "merge"}

\* the graph with the editor hung off the strategist instead of the writer
EdgesEditorEarly ==
    { <<"START", "strategist">>, <<"strategist", "writer">>,
      <<"writer", "fact_checker">>, <<"strategist", "editor">>,
      <<"fact_checker", "merge">>, <<"editor", "merge">>,
      <<"merge", "END">> }

\* the graph with one more edge, from merge back to writer
EdgesBackToWriter ==
    { <<"START", "strategist">>, <<"strategist", "writer">>,
      <<"writer", "fact_checker">>, <<"writer", "editor">>,
      <<"fact_checker", "merge">>, <<"editor", "merge">>,
      <<"merge", "writer">>, <<"merge", "END">> }

Edges ==
    { <<"START", "strategist">>, <<"strategist", "writer">>,
      <<"writer", "fact_checker">>, <<"writer", "editor">>,
      <<"fact_checker", "merge">>, <<"editor", "merge">>,
      <<"merge", "END">> }

Succ(S) == { n \in Nodes : \E m \in S : <<m, n>> \in Edges }

Keys == {"input", "mode", "research", "draft", "fact_checked", "edited", "final"}

initial_state ==
    [input |-> <<input>>, mode |-> <<mode>>, research |-> Empty, draft |-> Empty,
     fact_checked |-> Empty, edited |-> Empty, final |-> Empty]

\* the initial_state of a call with input i and mode m
InitialStateOf(i, m) ==
    [input |-> <<i>>, mode |-> <<m>>, research |-> Empty, draft |-> Empty,
     fact_checked |-> Empty, edited |-> Empty, final |-> Empty]

StrategistQueries(s) == [i \in 1..3 |-> <<SearchKinds[i], s.input[1]>>]
VerifyQuery(s) == <<VerifyKind, s.input[1]>>

\* the editor returning its text under the fact checker's key
OutKeyClash(n) ==
    CASE n = "strategist"   -> "research"
      [] n = "writer"       -> "draft"
      [] n = "fact_checker" -> "fact_checked"
      [] n = "editor"       -> "fact_checked"
      [] OTHER              -> "final"

\* the merge node returning its text under the caller's key "mode"
OutKeyMode(n) ==
    CASE n = "strategist"   -> "research"
      [] n = "writer"       -> "draft"
      [] n = "fact_checker" -> "fact_checked"
      [] n = "editor"       -> "edited"
      [] OTHER              -> "mode"

\* the key each node's partial update writes
OutKey(n) ==
    CASE n = "strategist"   -> "research"
      [] n = "writer"       -> "draft"
      [] n = "fact_checker" -> "fact_checked"
      [] n = "editor"       -> "edited"
      [] OTHER              -> "final"

\* the value each node returns, from the State s it was started with and the cache c
NodeOutput(n, s, c) ==
    CASE n = "strategist" ->
           LET qs == StrategistQueries(s)
               c1 == CacheAfter(c, qs[1])
               c2 == CacheAfter(c1, qs[2])
           IN  <<"strategist(">> \o s.input \o s.mode
                 \o duckduckgo_search(c, qs[1]) \o duckduckgo_search(c1, qs[2])
                 \o duckduckgo_search(c2, qs[3]) \o <<")">>
      [] n = "writer" -> <<"writer(">> \o s.mode \o s.research \o <<")">>
      [] n = "fact_checker" ->
           <<"fact_checker(">> \o s.mode \o s.draft
             \o duckduckgo_search(c, VerifyQuery(s)) \o <<")">>
      [] n = "editor" -> <<"editor(">> \o s.mode \o s.draft \o <<")">>
      [] OTHER -> <<"merge(">> \o s.fact_checked \o <<"|">> \o s.edited \o <<")">>

\* the cache after node n ran to its end
NodeCache(n, s, c) ==
    CASE n = "strategist"   -> CacheAfterAll(c, StrategistQueries(s))
      [] n = "fact_checker" -> CacheAfter(c, VerifyQuery(s))
      [] OTHER              -> c

\* merge of the partial updates of one superstep into the State, in completion order
RECURSIVE ApplyWrites(_, _)
ApplyWrites(s, ws) ==
    IF ws = <<>> THEN s
    ELSE ApplyWrites([s EXCEPT ![Head(ws).key] = Head(ws).val], Tail(ws))

(***************************************************************************)
(* Display names and events                                                *)
(***************************************************************************)
node_display_names ==
    [strategist |-> "Content Strategist", writer |-> "Blog Writer",
     fact_checker |-> "Fact Checker", editor |-> "Content Editor",
     merge |-> "Finalizing"]

agent_names == <<"Content Strategist", "Blog Writer", "Fact Checker", "Content Editor">>

NoAgent == "-"
NoProgress == 0 - 1
Ev(t, a, p, m) == [type |-> t, agent |-> a, progress |-> p, message |-> m]

\* agent_phases[agent][i] of generate_research, by index
PhaseMsg(i) == <<"phase0", "phase1", "phase2">>[i + 1]

Min(a, b) == IF a < b THEN a ELSE b

ProgressStep == 8
ProgressCap == 90
MaxPhase == 2

(***************************************************************************)
(* Init: generate_research has just been called; the module was imported   *)
(* (empty _search_cache, compiled graph), nothing emitted yet.             *)
(***************************************************************************)
IdleStat == [n \in Nodes |-> "idle"]

\* the inputs of the runs of Spec: the control flow of generate_research and of
\* its animation thread does not read them
ServiceTopics == {"t1"}
ServiceOutcomes == {"hits"}

\* no second call is in flight
OtherIdle ==
    /\ o_input = "t1"
    /\ o_mode = "gen-z"
    /\ o_pass = 0
    /\ o_frontier = {}
    /\ o_done = {}
    /\ o_state = InitialStateOf("t1", "gen-z")
    /\ o_writes = <<>>
    /\ o_log = <<>>
    /\ o_result = Empty

NoIdx == 0 - 1

\* CrewService.generate_research is not running
CrewIdle ==
    /\ progress_controller = [current_agent_index |-> 0, running |-> TRUE,
                              completed |-> FALSE]
    /\ tasks_done = 0
    /\ ppc = "off"
    /\ current_idx = NoIdx
    /\ progress = 0
    /\ phase_index = 0
    /\ wait_count = 0
    /\ restarts = 0
    /\ advpc = "off"
    /\ adv_i = 0

\* the looping-graph script is not running
LoopIdle ==
    /\ lpc = "off"
    /\ lstate = [name |-> <<>>, number |-> <<>>, counter |-> 0]

\* Python's None
PyNone == "None"

\* SupportAgent.chat is not running
ChatIdle ==
    /\ chat_pc = "off"
    /\ attempt = 0
    /\ response = PyNone
    /\ best_response = PyNone
    /\ best_score = 0
    /\ feedbacks = 0
    /\ attempts = <<>>
    /\ chat_returned = PyNone

\* no tool-execution loop is running
AgentIdle ==
    /\ kind = "agent"
    /\ max_turns = 10
    /\ conversation_history = <<>>
    /\ agent_pc = "off"
    /\ iteration = 0
    /\ done = FALSE
    /\ messages = <<>>
    /\ tool_calls = <<>>
    /\ last_content = PyNone
    /\ agent_returned = PyNone
    /\ raise_cause = "none"
    /\ llm_calls = 0
    /\ runs = 0
    /\ fed = {}
    /\ dispatches = {}

\* the chat sessions served at once
Sessions == {"s1", "s2"}

\* support_agent.py as imported: TICKETS = [], TICKET_ID = 1000, no call in progress
TicketIdle ==
    /\ TICKET_ID = 1000
    /\ TICKETS = <<>>
    /\ ticket_pc = [t \in Sessions |-> "idle"]
    /\ loaded = [t \in Sessions |-> 0]
    /\ ticket = [t \in Sessions |-> 0]
    /\ ticket_calls = [t \in Sessions |-> 0]
    /\ ticket_returns = {}

\* transform_stream has not been called
StreamIdle ==
    /\ variant = "A"
    /\ stream_pc = "off"
    /\ linkedin_content = <<>>
    /\ whatsapp_content = <<>>
    /\ hashtags = <<>>
    /\ out = <<>>
    /\ hashtag_failed = FALSE

\* none of the agent modules is running
ModulesIdle ==
    /\ ChatIdle
    /\ AgentIdle
    /\ TicketIdle
    /\ StreamIdle

XIdle ==
    /\ deleted = {}
    /\ sent = EmptyBag
    /\ OtherIdle
    /\ CrewIdle
    /\ LoopIdle
    /\ ModulesIdle

\* the service, its pipeline and its animation thread as generate_research finds them
PipelineIdle ==
    /\ cache = [q \in Queries |-> Empty]
    /\ pass = 0
    /\ frontier = {}
    /\ nstat = IdleStat
    /\ gstate = initial_state
    /\ writes = <<>>
    /\ updates = <<>>
    /\ completed_nodes = {}
    /\ result = Empty
    /\ pc = "begin"
    /\ progress_state = [current_agents |-> {}, completed_agents |-> {}, running |-> TRUE]
    /\ final_content = Empty
    /\ db = {}
    /\ ens = 1
    /\ apc = "loop"
    /\ snapshot = {}
    /\ agent_progress = [a \in {agent_names[i] : i \in 1..Len(agent_names)} |-> 0]
    /\ agent_phase = [a \in {agent_names[i] : i \in 1..Len(agent_names)} |-> 0]
    /\ pending = Ev("none", NoAgent, NoProgress, "")
    /\ log = <<>>
    /\ state1 = initial_state
    /\ state2 = initial_state
    /\ failedNode = "none"
    /\ everStarted = {}
    /\ nruns = [n \in Nodes |-> 0]

\* everything but the caller's input and the world
InitRest ==
    /\ PipelineIdle
    /\ XIdle

\* stream_events has created the queue and started the run_crew thread
TransportInit ==
    /\ event_queue = <<>>
    /\ tpc = "generate"
    /\ emitted = 0
    /\ cpc = "get"
    /\ yielded = <<>>

Init ==
    /\ input \in ServiceTopics
    /\ mode \in Modes
    /\ backend \in [QueriesOf(input) -> ServiceOutcomes]
    /\ InitRest
    /\ TransportInit

(***************************************************************************)
(* generate_research, main thread, up to the call of run_research          *)
(***************************************************************************)
\* callback(agent_start 'Content Strategist'), after progress_thread.start()
EmitFirstStart ==
    /\ pc = "begin"
    /\ log' = Append(log, Ev("agent_start", "Content Strategist", NoProgress, PhaseMsg(0)))
    /\ pc' = "addcur"
    /\ UNCHANGED <<gvars, progress_state, final_content, db, ens, avars, hvars>>
    /\ UNCHANGED <<tvars, xvars>>

\* progress_state['current_agents'].add(...), then run_research builds
\* initial_state and enters research_graph.stream
EnterStream ==
    /\ pc = "addcur"
    /\ progress_state' = [progress_state EXCEPT
                            !.current_agents = @ \cup {"Content Strategist"}]
    /\ pc' = "run"
    /\ pass' = 1
    /\ gstate' = initial_state
    /\ frontier' = Succ({"START"})
    /\ nstat' = [n \in Nodes |-> IF n \in Succ({"START"}) THEN "pending" ELSE "idle"]
    /\ UNCHANGED <<input, mode, backend, cache, writes, updates, completed_nodes,
                   result, final_content, db, ens, avars, log, hvars>>
    /\ UNCHANGED <<tvars, xvars>>

(***************************************************************************)
(* One execution of the compiled graph: supersteps.  The nodes triggered   *)
(* by the previous superstep run concurrently, each on the State as it was *)
(* when the superstep began; their partial updates are merged when all of  *)
(* them have finished, and the nodes they lead to form the next superstep. *)
(***************************************************************************)
InRun == pc \in {"run", "cb"} /\ pass \in {1, 2}

\* one node at a time, as a sequential crew would run them
CanStartAlone(n) ==
    /\ n \in frontier /\ nstat[n] = "pending"
    /\ \A m \in Nodes : nstat[m] # "running"

\* whether node n of the current superstep may be launched
CanStart(n) == n \in frontier /\ nstat[n] = "pending"

NodeStart(n) ==
    /\ InRun
    /\ failedNode = "none"
    /\ CanStart(n)
    /\ nstat' = [nstat EXCEPT ![n] = "running"]
    /\ everStarted' = everStarted \cup {n}
    /\ nruns' = [nruns EXCEPT ![n] = @ + 1]
    /\ UNCHANGED <<input, mode, backend, cache, pass, frontier, gstate, writes,
                   updates, completed_nodes, result, svars, avars, log,
                   state1, state2, failedNode>>
    /\ UNCHANGED <<tvars, xvars>>

\* node n returns its partial update; in stream mode the update is yielded
NodeFinish(n) ==
    /\ InRun
    /\ failedNode = "none"
    /\ nstat[n] = "running"
    /\ nstat' = [nstat EXCEPT ![n] = "done"]
    /\ writes' = Append(writes, [key |-> OutKey(n), val |-> NodeOutput(n, gstate, cache)])
    /\ cache' = NodeCache(n, gstate, cache)
    /\ updates' = IF pass = 1 THEN Append(updates, n) ELSE updates
    /\ UNCHANGED <<input, mode, backend, pass, frontier, gstate, completed_nodes,
                   result, svars, avars, log, hvars>>
    /\ UNCHANGED <<tvars, xvars>>

\* an LLM call of node n raises.  strategist_node has searched before its
\* one LLM call; fact_checker_node searches between its two LLM calls.
NodeFail(n) ==
    /\ InRun
    /\ failedNode = "none"
    /\ nstat[n] = "running"
    /\ nstat' = [nstat EXCEPT ![n] = "failed"]
    /\ failedNode' = n
    /\ \E searched \in BOOLEAN :
         /\ (n = "strategist" => searched)
         /\ (n \notin {"strategist", "fact_checker"} => ~searched)
         /\ cache' = IF searched THEN NodeCache(n, gstate, cache) ELSE cache
    /\ UNCHANGED <<input, mode, backend, pass, frontier, gstate, writes, updates,
                   completed_nodes, result, svars, avars, log, state1, state2,
                   everStarted, nruns>>
    /\ UNCHANGED <<tvars, xvars>>

SuperstepDone ==
    /\ failedNode = "none"
    /\ frontier # {}
    /\ \A n \in frontier : nstat[n] = "done"
    /\ updates = <<>>

\* the barrier between two supersteps
NextSuperstep ==
    /\ pc = "run" /\ pass \in {1, 2}
    /\ SuperstepDone
    /\ Succ(frontier) # {}
    /\ gstate' = ApplyWrites(gstate, writes)
    /\ writes' = <<>>
    /\ frontier' = Succ(frontier)
    /\ nstat' = [n \in Nodes |-> IF n \in Succ(frontier) THEN "pending" ELSE nstat[n]]
    /\ UNCHANGED <<input, mode, backend, cache, pass, updates, completed_nodes,
                   result, svars, avars, log, hvars>>
    /\ UNCHANGED <<tvars, xvars>>

(***************************************************************************)
(* run_research: the loop over research_graph.stream, and langgraph_callback*)
(***************************************************************************)
\* the node whose update the for-loop of run_research is handling
CurUpdate == Head(updates)

\* langgraph_callback('agent_complete'), first half: the bookkeeping and the
\* progress-100 event.  A node already in completed_nodes is skipped.
CallbackProgress ==
    /\ pc = "run" /\ pass = 1
    /\ updates # <<>>
    /\ IF CurUpdate \in completed_nodes
       THEN /\ updates' = Tail(updates)
            /\ UNCHANGED <<pc, progress_state, log>>
       ELSE /\ progress_state' =
                 [progress_state EXCEPT
                    !.current_agents = @ \ {node_display_names[CurUpdate]},
                    !.completed_agents = @ \cup {node_display_names[CurUpdate]}]
            /\ log' = Append(log, Ev("agent_progress", node_display_names[CurUpdate], 100, ""))
            /\ pc' = "cb"
            /\ UNCHANGED updates
    /\ UNCHANGED <<input, mode, backend, cache, pass, frontier, nstat, gstate, writes,
                   completed_nodes, result, final_content, db, ens, avars, hvars>>
    /\ UNCHANGED <<tvars, xvars>>

\* langgraph_callback('agent_complete'), second half: the event is passed on,
\* and run_research records the node in completed_nodes
CallbackComplete ==
    /\ pc = "cb"
    /\ log' = Append(log, Ev("agent_complete", node_display_names[CurUpdate], NoProgress, ""))
    /\ completed_nodes' = completed_nodes \cup {CurUpdate}
    /\ updates' = Tail(updates)
    /\ pc' = "run"
    /\ UNCHANGED <<input, mode, backend, cache, pass, frontier, nstat, gstate, writes,
                   result, progress_state, final_content, db, ens, avars, hvars>>
    /\ UNCHANGED <<tvars, xvars>>

\* research_graph.stream is exhausted; run_research calls research_graph.invoke
\* on the same initial_state
StreamEnd ==
    /\ pc = "run" /\ pass = 1
    /\ SuperstepDone
    /\ Succ(frontier) = {}
    /\ state1' = ApplyWrites(gstate, writes)
    /\ pass' = 2
    /\ gstate' = initial_state
    /\ writes' = <<>>
    /\ frontier' = Succ({"START"})
    /\ nstat' = [n \in Nodes |-> IF n \in Succ({"START"}) THEN "pending" ELSE "idle"]
    /\ UNCHANGED <<input, mode, backend, cache, updates, completed_nodes, result,
                   svars, avars, log, state2, failedNode, everStarted, nruns>>
    /\ UNCHANGED <<tvars, xvars>>

\* final_state.get("final", ...): the key is always present in the State
FinalOf(s) == s.final

\* research_graph.invoke returns; run_research returns the final content
InvokeEnd ==
    /\ pc = "run" /\ pass = 2
    /\ SuperstepDone
    /\ Succ(frontier) = {}
    /\ state2' = ApplyWrites(gstate, writes)
    /\ gstate' = ApplyWrites(gstate, writes)
    /\ writes' = <<>>
    /\ result' = FinalOf(ApplyWrites(gstate, writes))
    /\ pass' = 3
    /\ pc' = "stop"
    /\ UNCHANGED <<input, mode, backend, cache, frontier, nstat, updates,
                   completed_nodes, progress_state, final_content, db, ens, avars,
                   log, state1, failedNode, everStarted, nruns>>
    /\ UNCHANGED <<tvars, xvars>>

\* a service that falls back to the partial State when the pipeline raises
OnPipelineErrorFallback == "stop"

\* where generate_research goes when the pipeline raises
OnPipelineError == "except"

\* the exception of a failed node leaves stream / invoke and run_research,
\* after the updates already yielded have been handled
RaiseFromGraph ==
    /\ pc = "run" /\ pass \in {1, 2}
    /\ failedNode # "none"
    /\ updates = <<>>
    /\ pc' = OnPipelineError
    /\ UNCHANGED <<gvars, progress_state, final_content, db, ens, avars, log, hvars>>
    /\ UNCHANGED <<tvars, xvars>>

(***************************************************************************)
(* generate_research, main thread, after run_research                      *)
(***************************************************************************)
\* progress_state['running'] = False
StopAnimation ==
    /\ pc = "stop"
    /\ progress_state' = [progress_state EXCEPT !.running = FALSE]
    /\ ens' = 1
    /\ pc' = "ensure"
    /\ UNCHANGED <<gvars, final_content, db, avars, log, hvars>>
    /\ UNCHANGED <<tvars, xvars>>

\* one iteration of "for agent_name in agent_names: if not completed ..."
EnsureComplete ==
    /\ pc = "ensure"
    /\ log' = IF agent_names[ens] \in progress_state.completed_agents THEN log
              ELSE log \o << Ev("agent_progress", agent_names[ens], 100, ""),
                             Ev("agent_complete", agent_names[ens], NoProgress, "") >>
    /\ ens' = ens + 1
    /\ pc' = IF ens = Len(agent_names) THEN "humanize_msg" ELSE "ensure"
    /\ UNCHANGED <<gvars, progress_state, final_content, db, avars, hvars>>
    /\ UNCHANGED <<tvars, xvars>>

EmitHumanizing ==
    /\ pc = "humanize_msg"
    /\ log' = Append(log, Ev("agent_progress", "Content Editor", 100, "Humanizing output..."))
    /\ pc' = "humanize"
    /\ UNCHANGED <<gvars, progress_state, final_content, db, ens, avars, hvars>>
    /\ UNCHANGED <<tvars, xvars>>

\* humanize_content(str(result))
Humanize ==
    /\ pc = "humanize"
    /\ final_content' = <<"humanize(">> \o result \o <<")">>
    /\ pc' = "highlight_msg"
    /\ UNCHANGED <<gvars, progress_state, db, ens, avars, log, hvars>>
    /\ UNCHANGED <<tvars, xvars>>

EmitHighlighting ==
    /\ pc = "highlight_msg"
    /\ log' = Append(log, Ev("agent_progress", "Content Editor", 100, "Adding highlights..."))
    /\ pc' = "highlight"
    /\ UNCHANGED <<gvars, progress_state, final_content, db, ens, avars, hvars>>
    /\ UNCHANGED <<tvars, xvars>>

\* highlight_content(humanized_content)
Highlight ==
    /\ pc = "highlight"
    /\ final_content' = <<"highlight(">> \o final_content \o <<")">>
    /\ pc' = "save"
    /\ UNCHANGED <<gvars, progress_state, db, ens, avars, log, hvars>>
    /\ UNCHANGED <<tvars, xvars>>

\* the uuid4 of this run
research_id == "id1"

\* a service that announces the id without having committed the row
SaveSkipsCommit ==
    /\ pc = "save"
    /\ pc' = "complete"
    /\ UNCHANGED <<gvars, progress_state, final_content, db, ens, avars, log, hvars>>
    /\ UNCHANGED <<tvars, xvars>>

\* db.add(research); db.commit()
Save ==
    /\ pc = "save"
    /\ db' = db \cup {[id |-> research_id, input |-> input, mode |-> mode,
                       content |-> final_content, status |-> "complete"]}
    /\ pc' = "complete"
    /\ UNCHANGED <<gvars, progress_state, final_content, ens, avars, log, hvars>>
    /\ UNCHANGED <<tvars, xvars>>

\* GET /api/research/{id}: the rows with that id; none is the 404
get_research(rid) == {row \in db : row.id = rid}

\* DELETE /api/research/{id} on a stored row, by any client at any time
DeleteResearch ==
    /\ \E row \in db :
         /\ db' = db \ {row}
         /\ deleted' = deleted \cup {row.id}
    /\ UNCHANGED <<gvars, pc, progress_state, final_content, ens, avars, log, hvars>>
    /\ UNCHANGED <<tvars, ovars, kvars, sent, lvars, mvars>>

\* an LLM call of the post-processing, or the commit, raises
PostFail ==
    /\ pc \in {"humanize", "highlight", "save"}
    /\ pc' = "except"
    /\ UNCHANGED <<gvars, progress_state, final_content, db, ens, avars, log, hvars>>
    /\ UNCHANGED <<tvars, xvars>>

EmitComplete ==
    /\ pc = "complete"
    /\ log' = Append(log, Ev("complete", NoAgent, NoProgress, research_id))
    /\ pc' = "done"
    /\ UNCHANGED <<gvars, progress_state, final_content, db, ens, avars, hvars>>
    /\ UNCHANGED <<tvars, xvars>>

\* except Exception as e: callback({'type': 'error', ...})
EmitError ==
    /\ pc = "except"
    /\ log' = Append(log, Ev("error", NoAgent, NoProgress, ""))
    /\ pc' = "done"
    /\ UNCHANGED <<gvars, progress_state, final_content, db, ens, avars, hvars>>
    /\ UNCHANGED <<tvars, xvars>>

(***************************************************************************)
(* run_progress_animation (daemon thread)                                  *)
(***************************************************************************)
\* "while progress_state['running']" and list(progress_state['current_agents'])
AnimLoop ==
    /\ apc = "loop"
    /\ IF progress_state.running
       THEN /\ snapshot' = progress_state.current_agents
            /\ apc' = "iter"
       ELSE /\ apc' = "exit"
            /\ UNCHANGED snapshot
    /\ UNCHANGED <<gvars, svars, agent_progress, agent_phase, pending, log, hvars>>
    /\ UNCHANGED <<tvars, xvars>>

\* one iteration of the for-loop up to the call of send_progress_for_agent
AnimCheck ==
    /\ apc = "iter"
    /\ \E a \in snapshot :
         /\ snapshot' = snapshot \ {a}
         /\ IF a \in progress_state.completed_agents
            THEN UNCHANGED <<apc, agent_progress, agent_phase, pending>>
            ELSE IF a \notin DOMAIN agent_phase
            THEN /\ apc' = "exit"
                 /\ UNCHANGED <<agent_progress, agent_phase, pending>>
            ELSE IF agent_progress[a] < ProgressCap
            THEN /\ agent_progress' =
                      [agent_progress EXCEPT ![a] = Min(@ + ProgressStep, ProgressCap)]
                 /\ agent_phase' = [agent_phase EXCEPT ![a] = Min(@ + 1, MaxPhase)]
                 /\ pending' = Ev("agent_progress", a,
                                  Min(agent_progress[a] + ProgressStep, ProgressCap),
                                  PhaseMsg(Min(agent_phase[a] + 1, MaxPhase)))
                 /\ apc' = "send"
            ELSE UNCHANGED <<apc, agent_progress, agent_phase, pending>>
    /\ UNCHANGED <<gvars, svars, log, hvars>>
    /\ UNCHANGED <<tvars, xvars>>

\* send_progress_for_agent: callback({'type': 'agent_progress', ...})
AnimSend ==
    /\ apc = "send"
    /\ log' = Append(log, pending)
    /\ apc' = "iter"
    /\ UNCHANGED <<gvars, svars, snapshot, agent_progress, agent_phase, pending, hvars>>
    /\ UNCHANGED <<tvars, xvars>>

\* the for-loop is over: time.sleep(1.2), back to the while test
AnimSleep ==
    /\ apc = "iter"
    /\ snapshot = {}
    /\ apc' = "loop"
    /\ UNCHANGED <<gvars, svars, snapshot, agent_progress, agent_phase, pending, log, hvars>>
    /\ UNCHANGED <<tvars, xvars>>

(***************************************************************************)
(* Specification                                                           *)
(***************************************************************************)
Next ==
    \/ EmitFirstStart
    \/ EnterStream
    \/ \E n \in Nodes : NodeStart(n)
    \/ \E n \in Nodes : NodeFinish(n)
    \/ \E n \in Nodes : NodeFail(n)
    \/ NextSuperstep
    \/ CallbackProgress
    \/ CallbackComplete
    \/ StreamEnd
    \/ InvokeEnd
    \/ RaiseFromGraph
    \/ StopAnimation
    \/ EnsureComplete
    \/ EmitHumanizing
    \/ Humanize
    \/ EmitHighlighting
    \/ Highlight
    \/ Save
    \/ PostFail
    \/ DeleteResearch
    \/ EmitComplete
    \/ EmitError
    \/ AnimLoop
    \/ AnimCheck
    \/ AnimSend
    \/ AnimSleep

Spec == Init /\ [][Next]_vars

(***************************************************************************)
(* GraphSpec: run_research alone, over every input and every behaviour of  *)
(* the search backend.  It starts where generate_research has emitted the  *)
(* first agent_start and calls run_research, and follows the behaviours of *)
(* Spec in which the animation thread is not scheduled meanwhile.          *)
(***************************************************************************)
GraphInit ==
    /\ input \in Topics
    /\ mode \in Modes
    /\ backend \in [QueriesOf(input) -> Outcomes]
    /\ cache = [q \in Queries |-> Empty]
    /\ pass = 1
    /\ frontier = Succ({"START"})
    /\ nstat = [n \in Nodes |-> IF n \in Succ({"START"}) THEN "pending" ELSE "idle"]
    /\ gstate = initial_state
    /\ writes = <<>>
    /\ updates = <<>>
    /\ completed_nodes = {}
    /\ result = Empty
    /\ pc = "run"
    /\ progress_state = [current_agents |-> {"Content Strategist"},
                         completed_agents |-> {}, running |-> TRUE]
    /\ final_content = Empty
    /\ db = {}
    /\ ens = 1
    /\ apc = "loop"
    /\ snapshot = {}
    /\ agent_progress = [a \in {agent_names[i] : i \in 1..Len(agent_names)} |-> 0]
    /\ agent_phase = [a \in {agent_names[i] : i \in 1..Len(agent_names)} |-> 0]
    /\ pending = Ev("none", NoAgent, NoProgress, "")
    /\ log = <<Ev("agent_start", "Content Strategist", NoProgress, PhaseMsg(0))>>
    /\ state1 = initial_state
    /\ state2 = initial_state
    /\ failedNode = "none"
    /\ everStarted = {}
    /\ nruns = [n \in Nodes |-> 0]
    /\ XIdle
    /\ TransportInit

GraphNext ==
    \/ \E n \in Nodes : NodeStart(n)
    \/ \E n \in Nodes : NodeFinish(n)
    \/ \E n \in Nodes : NodeFail(n)
    \/ NextSuperstep
    \/ CallbackProgress
    \/ CallbackComplete
    \/ StreamEnd
    \/ InvokeEnd
    \/ RaiseFromGraph

GraphSpec == GraphInit /\ [][GraphNext]_vars

(***************************************************************************)
(* main.py, stream_events: the run_crew thread puts the events of          *)
(* generate_research on event_queue, the generator takes them off and      *)
(* yields them.  Here generate_research is what run_crew sees of it: calls *)
(* of collect_event, ended by one terminal event ('complete' or 'error')   *)
(* and a return, or by an exception.                                       *)
(***************************************************************************)
MaxEvents == 3

Sentinel == "None"
Terminal == {"complete", "error"}

\* maxsize of queue.Queue(): none given, the default, which means no limit
QueueMaxSize == 0

\* a queue that holds one item at most
CanPutBounded(q) == Len(q) < 1

\* whether put returns at once on queue q (a put on a full queue blocks)
CanPut(q) == QueueMaxSize <= 0 \/ Len(q) < QueueMaxSize

\* collect_event(event): event_queue.put(event)
Put(q, e) == Append(q, e)

\* generate_research calls collect_event with an agent event
GenEmit ==
    /\ tpc = "generate"
    /\ emitted < MaxEvents
    /\ CanPut(event_queue)
    /\ event_queue' = Put(event_queue, "agent_event")
    /\ emitted' = emitted + 1
    /\ UNCHANGED <<rvars, xvars, tpc, cpc, yielded>>

\* generate_research emits its terminal event and returns
GenTerminal ==
    /\ tpc = "generate"
    /\ CanPut(event_queue)
    /\ \E t \in Terminal : event_queue' = Put(event_queue, t)
    /\ tpc' = "returned"
    /\ UNCHANGED <<rvars, xvars, emitted, cpc, yielded>>

\* an exception leaves generate_research
GenRaise ==
    /\ tpc = "generate"
    /\ tpc' = "raised"
    /\ UNCHANGED <<rvars, xvars, event_queue, emitted, cpc, yielded>>

\* run_crew, except branch: event_queue.put({'type': 'error', ...})
PutErrorInHandler ==
    /\ tpc = "raised"
    /\ CanPut(event_queue)
    /\ event_queue' = Put(event_queue, "error")
    /\ tpc' = "returned"
    /\ UNCHANGED <<rvars, xvars, emitted, cpc, yielded>>

\* run_crew: event_queue.put(None)
PutSentinel ==
    /\ tpc = "returned"
    /\ CanPut(event_queue)
    /\ event_queue' = Put(event_queue, Sentinel)
    /\ tpc' = "finishing"
    /\ UNCHANGED <<rvars, xvars, emitted, cpc, yielded>>

\* run_crew has returned: the thread is no longer alive
ThreadExit ==
    /\ tpc = "finishing"
    /\ tpc' = "exited"
    /\ UNCHANGED <<rvars, xvars, event_queue, emitted, cpc, yielded>>

\* an exception that "except Exception" does not catch (a BaseException such
\* as SystemExit) leaves run_crew: the thread ends and nothing more is put
GenAbort ==
    /\ tpc = "generate"
    /\ tpc' = "exited"
    /\ UNCHANGED <<rvars, xvars, event_queue, emitted, cpc, yielded>>

\* a thread object that reports itself alive for ever
AlwaysAlive == TRUE

is_alive == tpc # "exited"

\* event_queue.get(timeout=1) returns an item: None ends the stream, an event is yielded
GetItem ==
    /\ cpc = "get"
    /\ event_queue # <<>>
    /\ event_queue' = Tail(event_queue)
    /\ IF Head(event_queue) = Sentinel
       THEN cpc' = "end" /\ UNCHANGED yielded
       ELSE cpc' = "get" /\ yielded' = Append(yielded, Head(event_queue))
    /\ UNCHANGED <<rvars, xvars, tpc, emitted>>

\* event_queue.get(timeout=1) found the queue empty for a second: queue.Empty
GetTimeout ==
    /\ cpc = "get"
    /\ event_queue = <<>>
    /\ cpc' = "empty"
    /\ UNCHANGED <<rvars, xvars, event_queue, tpc, emitted, yielded>>

\* except queue.Empty: "if not thread.is_alive(): break", else continue
AliveCheck ==
    /\ cpc = "empty"
    /\ cpc' = IF is_alive THEN "get" ELSE "end"
    /\ UNCHANGED <<rvars, xvars, event_queue, tpc, emitted, yielded>>

SseInit ==
    /\ input = "t1"
    /\ mode = "analytical"
    /\ backend = [q \in QueriesOf("t1") |-> "hits"]
    /\ InitRest
    /\ TransportInit

SseNext ==
    \/ GenEmit
    \/ GenTerminal
    \/ GenRaise
    \/ PutErrorInHandler
    \/ PutSentinel
    \/ ThreadExit
    \/ GenAbort
    \/ GetItem
    \/ GetTimeout
    \/ AliveCheck

SseSpec == SseInit /\ [][SseNext]_vars

\* the steps of the run_crew thread, and those of the stream_events generator
RunCrewStep ==
    GenEmit \/ GenTerminal \/ GenRaise \/ PutErrorInHandler \/ PutSentinel
        \/ ThreadExit \/ GenAbort
StreamStep == GetItem \/ GetTimeout \/ AliveCheck

\* The interpreter schedules a started thread as long as it can take a step,
\* and the server keeps resuming the generator: get(timeout=1) returns or
\* raises queue.Empty within a second.
SseFairSpec ==
    SseInit /\ [][SseNext]_vars /\ WF_vars(RunCrewStep) /\ WF_vars(StreamStep)

(***************************************************************************)
(* TwoSpec: two /api/generate requests at once.  Each request has its own  *)
(* stream_events frame (queue, collect_event, thread) and its own          *)
(* generate_research frame (progress_state, langgraph_callback); the calls *)
(* share the service object, the compiled research_graph, which keeps no   *)
(* State between executions, and the module-level _search_cache.  The      *)
(* first call is the run_research of GraphSpec; the second call runs the   *)
(* same graph, one step per node, its events going to its own callback.    *)
(***************************************************************************)
\* gvars without the shared cache
g1vars == <<input, mode, backend, pass, frontier, nstat, gstate, writes, updates,
            completed_nodes, result>>

\* run_research of the second call: node n runs on the State of the superstep
\* and returns its update; in the stream pass langgraph_callback reports it
OtherNode(n) ==
    /\ o_pass \in {1, 2}
    /\ n \in o_frontier \ o_done
    /\ o_writes' = Append(o_writes, [key |-> OutKey(n), val |-> NodeOutput(n, o_state, cache)])
    /\ cache' = NodeCache(n, o_state, cache)
    /\ o_done' = o_done \cup {n}
    /\ o_log' = IF o_pass = 1
                THEN o_log \o << Ev("agent_progress", node_display_names[n], 100, ""),
                                 Ev("agent_complete", node_display_names[n], NoProgress, "") >>
                ELSE o_log
    /\ UNCHANGED <<o_input, o_mode, o_pass, o_frontier, o_state, o_result>>
    /\ UNCHANGED <<g1vars, svars, avars, log, hvars, tvars, deleted, kvars, sent, lvars, mvars>>

\* the barrier between two supersteps of the second call
OtherSuperstep ==
    /\ o_pass \in {1, 2}
    /\ o_frontier \subseteq o_done
    /\ Succ(o_frontier) # {}
    /\ o_state' = ApplyWrites(o_state, o_writes)
    /\ o_writes' = <<>>
    /\ o_frontier' = Succ(o_frontier)
    /\ UNCHANGED <<o_input, o_mode, o_pass, o_done, o_log, o_result>>
    /\ UNCHANGED <<gvars, svars, avars, log, hvars, tvars, deleted, kvars, sent, lvars, mvars>>

\* the stream of the second call is exhausted: research_graph.invoke(initial_state)
OtherStreamEnd ==
    /\ o_pass = 1
    /\ o_frontier \subseteq o_done
    /\ Succ(o_frontier) = {}
    /\ o_pass' = 2
    /\ o_state' = InitialStateOf(o_input, o_mode)
    /\ o_writes' = <<>>
    /\ o_frontier' = Succ({"START"})
    /\ o_done' = {}
    /\ UNCHANGED <<o_input, o_mode, o_log, o_result>>
    /\ UNCHANGED <<gvars, svars, avars, log, hvars, tvars, deleted, kvars, sent, lvars, mvars>>

\* invoke of the second call returns; its run_research returns the final content
OtherInvokeEnd ==
    /\ o_pass = 2
    /\ o_frontier \subseteq o_done
    /\ Succ(o_frontier) = {}
    /\ o_pass' = 3
    /\ o_state' = ApplyWrites(o_state, o_writes)
    /\ o_writes' = <<>>
    /\ o_result' = FinalOf(ApplyWrites(o_state, o_writes))
    /\ UNCHANGED <<o_input, o_mode, o_frontier, o_done, o_log>>
    /\ UNCHANGED <<gvars, svars, avars, log, hvars, tvars, deleted, kvars, sent, lvars, mvars>>

\* the search backend answers all the queries on one topic alike
TopicBackends ==
    { [q \in Queries |-> f[q[2]]] : f \in [Topics -> Outcomes] }

\* the topics are interchangeable: the first call asks about the first one
TwoInit ==
    /\ input = "t1"
    /\ mode \in Modes
    /\ backend \in TopicBackends
    /\ cache = [q \in Queries |-> Empty]
    /\ pass = 1
    /\ frontier = Succ({"START"})
    /\ nstat = [n \in Nodes |-> IF n \in Succ({"START"}) THEN "pending" ELSE "idle"]
    /\ gstate = initial_state
    /\ writes = <<>>
    /\ updates = <<>>
    /\ completed_nodes = {}
    /\ result = Empty
    /\ pc = "run"
    /\ progress_state = [current_agents |-> {"Content Strategist"},
                         completed_agents |-> {}, running |-> TRUE]
    /\ final_content = Empty
    /\ db = {}
    /\ ens = 1
    /\ apc = "loop"
    /\ snapshot = {}
    /\ agent_progress = [a \in {agent_names[i] : i \in 1..Len(agent_names)} |-> 0]
    /\ agent_phase = [a \in {agent_names[i] : i \in 1..Len(agent_names)} |-> 0]
    /\ pending = Ev("none", NoAgent, NoProgress, "")
    /\ log = <<Ev("agent_start", "Content Strategist", NoProgress, PhaseMsg(0))>>
    /\ state1 = initial_state
    /\ state2 = initial_state
    /\ failedNode = "none"
    /\ everStarted = {}
    /\ nruns = [n \in Nodes |-> 0]
    /\ TransportInit
    /\ deleted = {}
    /\ o_input \in Topics
    /\ o_mode \in Modes
    /\ o_pass = 1
    /\ o_frontier = Succ({"START"})
    /\ o_done = {}
    /\ o_state = InitialStateOf(o_input, o_mode)
    /\ o_writes = <<>>
    /\ o_log = <<Ev("agent_start", "Content Strategist", NoProgress, PhaseMsg(0))>>
    /\ o_result = Empty
    /\ CrewIdle
    /\ sent = EmptyBag
    /\ LoopIdle
    /\ ModulesIdle

TwoNext ==
    \/ \E n \in Nodes : NodeStart(n)
    \/ \E n \in Nodes : NodeFinish(n)
    \/ \E n \in Nodes : NodeFail(n)
    \/ NextSuperstep
    \/ CallbackProgress
    \/ CallbackComplete
    \/ StreamEnd
    \/ InvokeEnd
    \/ RaiseFromGraph
    \/ \E n \in Nodes : OtherNode(n)
    \/ OtherSuperstep
    \/ OtherStreamEnd
    \/ OtherInvokeEnd

TwoSpec == TwoInit /\ [][TwoNext]_vars

(***************************************************************************)
(* CrewSpec: CrewService.generate_research of crew_service.py.  Three      *)
(* threads share progress_controller: the main thread, which runs          *)
(* crew.kickoff() (the five tasks, one after the other) and then the       *)
(* post-processing; run_sequential_progress, which emits the agent events  *)
(* of the agent current_agent_index points at; and                         *)
(* advance_agents_periodically, which advances that index on a timer.      *)
(* A time.sleep is a step at which the other threads may run.  The bag     *)
(* sent counts how many times each event was handed to callback, but for   *)
(* the simulated agent_progress values of the inner loop, of which the     *)
(* latest is read off progress and phase_index.                            *)
(***************************************************************************)
crew_agent_names ==
    <<"Content Strategist", "Blog Writer", "Fact Checker", "Content Editor",
      "SEO Specialist">>

\* agent_phases[agent][i], by index
CrewPhaseMsg(i) == <<"phase0", "phase1", "phase2", "phase3">>[i + 1]

StartProgress == 5
CrewProgressStep == 12
\* a cap that lets the simulated progress pass 100
CrewProgressCapOver == 95 + CrewProgressStep

CrewProgressCap == 95
LastPhase == 3
MaxWait == 40

\* how many times run_sequential_progress may come back to the agent it was on
MaxRestarts == 1

\* everything CrewService.generate_research leaves alone
notcrew == <<input, mode, backend, cache, pass, frontier, nstat, gstate, writes,
             updates, completed_nodes, progress_state, avars, log, hvars, tvars,
             deleted, ovars, lvars, mvars>>

\* progress_thread.start()
StartProgressThread ==
    /\ pc = "k_begin"
    /\ ppc' = "outer"
    /\ pc' = "k_adv"
    /\ UNCHANGED <<progress_controller, tasks_done, current_idx, progress,
                   phase_index, wait_count, restarts, advpc, adv_i>>
    /\ UNCHANGED <<result, final_content, db, ens, sent, notcrew>>

\* advance_thread.start(), then crew.kickoff() is entered
StartAdvanceThread ==
    /\ pc = "k_adv"
    /\ advpc' = "on"
    /\ pc' = "kickoff"
    /\ UNCHANGED <<progress_controller, tasks_done, ppc, current_idx, progress,
                   phase_index, wait_count, restarts, adv_i>>
    /\ UNCHANGED <<result, final_content, db, ens, sent, notcrew>>

\* inside crew.kickoff(): the next task of the sequential crew finishes
KickoffTask ==
    /\ pc = "kickoff"
    /\ tasks_done < Len(crew_agent_names)
    /\ tasks_done' = tasks_done + 1
    /\ UNCHANGED <<progress_controller, ppc, current_idx, progress, phase_index,
                   wait_count, restarts, advpc, adv_i>>
    /\ UNCHANGED <<pc, result, final_content, db, ens, sent, notcrew>>

\* result = crew.kickoff()
KickoffReturn ==
    /\ pc = "kickoff"
    /\ tasks_done = Len(crew_agent_names)
    /\ result' = <<"crew(", input, mode, ")">>
    /\ pc' = "k_completed"
    /\ UNCHANGED <<kvars, final_content, db, ens, sent, notcrew>>

\* progress_controller['completed'] = True
KMarkCompleted ==
    /\ pc = "k_completed"
    /\ progress_controller' = [progress_controller EXCEPT !.completed = TRUE]
    /\ pc' = "k_running"
    /\ UNCHANGED <<tasks_done, ppc, current_idx, progress, phase_index, wait_count,
                   restarts, advpc, adv_i>>
    /\ UNCHANGED <<result, final_content, db, ens, sent, notcrew>>

\* progress_controller['running'] = False; time.sleep(0.5)
KClearRunning ==
    /\ pc = "k_running"
    /\ progress_controller' = [progress_controller EXCEPT !.running = FALSE]
    /\ ens' = 1
    /\ pc' = "k_ensure"
    /\ UNCHANGED <<tasks_done, ppc, current_idx, progress, phase_index, wait_count,
                   restarts, advpc, adv_i>>
    /\ UNCHANGED <<result, final_content, db, sent, notcrew>>

\* one iteration of "for agent_name in agent_names": progress 100 and
\* agent_complete, for every agent, then time.sleep(0.1)
KEnsure ==
    /\ pc = "k_ensure"
    /\ sent' = sent (+) SetToBag({ Ev("agent_progress", crew_agent_names[ens], 100, ""),
                                    Ev("agent_complete", crew_agent_names[ens], NoProgress, "") })
    /\ ens' = ens + 1
    /\ pc' = IF ens = Len(crew_agent_names) THEN "k_humanize_msg" ELSE "k_ensure"
    /\ UNCHANGED <<kvars, result, final_content, db, notcrew>>

KEmitHumanizing ==
    /\ pc = "k_humanize_msg"
    /\ sent' = sent (+) SetToBag({Ev("agent_progress", "SEO Specialist", 100, "Humanizing output...")})
    /\ pc' = "k_humanize"
    /\ UNCHANGED <<kvars, result, final_content, db, ens, notcrew>>

\* humanize_content(str(result))
KHumanize ==
    /\ pc = "k_humanize"
    /\ final_content' = <<"humanize(">> \o result \o <<")">>
    /\ pc' = "k_highlight_msg"
    /\ UNCHANGED <<kvars, result, db, ens, sent, notcrew>>

KEmitHighlighting ==
    /\ pc = "k_highlight_msg"
    /\ sent' = sent (+) SetToBag({Ev("agent_progress", "SEO Specialist", 100, "Adding highlights...")})
    /\ pc' = "k_highlight"
    /\ UNCHANGED <<kvars, result, final_content, db, ens, notcrew>>

\* highlight_content(humanized_content)
KHighlight ==
    /\ pc = "k_highlight"
    /\ final_content' = <<"highlight(">> \o final_content \o <<")">>
    /\ pc' = "k_save"
    /\ UNCHANGED <<kvars, result, db, ens, sent, notcrew>>

\* db.add(research); db.commit()
KSave ==
    /\ pc = "k_save"
    /\ db' = db \cup {[id |-> research_id, input |-> input, mode |-> mode,
                       content |-> final_content, status |-> "complete"]}
    /\ pc' = "k_complete"
    /\ UNCHANGED <<kvars, result, final_content, ens, sent, notcrew>>

\* crew.kickoff(), an LLM call of the post-processing, or the commit, raises
KFail ==
    /\ pc \in {"kickoff", "k_humanize", "k_highlight", "k_save"}
    /\ pc' = "k_except"
    /\ UNCHANGED <<kvars, result, final_content, db, ens, sent, notcrew>>

KEmitComplete ==
    /\ pc = "k_complete"
    /\ sent' = sent (+) SetToBag({Ev("complete", NoAgent, NoProgress, research_id)})
    /\ pc' = "k_done"
    /\ UNCHANGED <<kvars, result, final_content, db, ens, notcrew>>

\* except Exception as e: callback({'type': 'error', ...})
KEmitError ==
    /\ pc = "k_except"
    /\ sent' = sent (+) SetToBag({Ev("error", NoAgent, NoProgress, "")})
    /\ pc' = "k_done"
    /\ UNCHANGED <<kvars, result, final_content, db, ens, notcrew>>

\* "while running and not completed", in all three loops of run_sequential_progress
Simulating == progress_controller.running /\ ~progress_controller.completed

\* run_sequential_progress, head of the outer loop: the while test, the read
\* of current_agent_index, the break past the last agent
POuter ==
    /\ ppc = "outer"
    /\ IF Simulating /\ progress_controller.current_agent_index < Len(crew_agent_names)
       THEN /\ current_idx' = progress_controller.current_agent_index
            /\ ppc' = "start"
            /\ IF progress_controller.current_agent_index = current_idx
               THEN restarts < MaxRestarts /\ restarts' = restarts + 1
               ELSE UNCHANGED restarts
       ELSE /\ ppc' = "exit"
            /\ UNCHANGED <<current_idx, restarts>>
    /\ UNCHANGED <<progress_controller, tasks_done, progress, phase_index, wait_count,
                   advpc, adv_i>>
    /\ UNCHANGED <<pc, result, final_content, db, ens, sent, notcrew>>

\* callback(agent_start); progress = 5; phase_index = 0.  A local that is dead
\* (assigned again before it is next read) is put back to 0 at once: wait_count
\* here, progress and phase_index when the inner loop is left.
PStart ==
    /\ ppc = "start"
    /\ sent' = sent (+) SetToBag({Ev("agent_start", crew_agent_names[current_idx + 1],
                             NoProgress, CrewPhaseMsg(0))})
    /\ progress' = StartProgress
    /\ phase_index' = 0
    /\ wait_count' = 0
    /\ ppc' = "anim"
    /\ UNCHANGED <<progress_controller, tasks_done, current_idx, restarts, advpc, adv_i>>
    /\ UNCHANGED <<pc, result, final_content, db, ens, notcrew>>

\* the agent_progress event the inner loop has just handed to callback
SimulatedEvent ==
    Ev("agent_progress", crew_agent_names[current_idx + 1], progress,
       CrewPhaseMsg(phase_index))

\* the test of the inner while and the first "if current_agent_index != current_idx"
PAnimTest ==
    /\ ppc = "anim"
    /\ IF /\ progress < CrewProgressCap
          /\ Simulating
          /\ progress_controller.current_agent_index = current_idx
       THEN ppc' = "sleep" /\ UNCHANGED <<progress, phase_index>>
       ELSE ppc' = "wait" /\ progress' = 0 /\ phase_index' = 0
    /\ UNCHANGED <<progress_controller, tasks_done, current_idx, wait_count, restarts,
                   advpc, adv_i>>
    /\ UNCHANGED <<pc, result, final_content, db, ens, sent, notcrew>>

\* after time.sleep(1.5): the second index test, the increment, and
\* callback(agent_progress) with the new progress and phase_index; SimulatedEvent
\* is the event handed over
PAnimStep ==
    /\ ppc = "sleep"
    /\ IF progress_controller.current_agent_index # current_idx
       THEN /\ ppc' = "wait"
            /\ progress' = 0
            /\ phase_index' = 0
       ELSE /\ progress' = Min(progress + CrewProgressStep, CrewProgressCap)
            /\ phase_index' = Min(phase_index + 1, LastPhase)
            /\ ppc' = "anim"
    /\ UNCHANGED <<progress_controller, tasks_done, current_idx, wait_count, restarts,
                   advpc, adv_i>>
    /\ UNCHANGED <<pc, result, final_content, db, ens, sent, notcrew>>

\* the wait loop, "time.sleep(1.5); wait_count += 1" while the index is
\* unchanged and wait_count < MaxWait.  The polls that find nothing changed
\* are one step, up to the limit; the test that ends the loop is the other.
PWait ==
    /\ ppc = "wait"
    /\ IF /\ progress_controller.current_agent_index = current_idx
          /\ Simulating
          /\ wait_count < MaxWait
       THEN wait_count' = MaxWait /\ UNCHANGED ppc
       ELSE ppc' = "mark" /\ UNCHANGED wait_count
    /\ UNCHANGED <<progress_controller, tasks_done, current_idx, progress, phase_index,
                   restarts, advpc, adv_i>>
    /\ UNCHANGED <<pc, result, final_content, db, ens, sent, notcrew>>

\* "if current_agent_index > current_idx or completed": callback(agent_progress 100);
\* otherwise straight back to the head of the outer loop
PMark ==
    /\ ppc = "mark"
    /\ IF \/ progress_controller.current_agent_index > current_idx
          \/ progress_controller.completed
       THEN /\ sent' = sent (+) SetToBag({Ev("agent_progress", crew_agent_names[current_idx + 1],
                                     100, "")})
            /\ ppc' = "mark2"
       ELSE /\ ppc' = "outer"
            /\ UNCHANGED sent
    /\ UNCHANGED <<progress_controller, tasks_done, current_idx, progress, phase_index,
                   wait_count, restarts, advpc, adv_i>>
    /\ UNCHANGED <<pc, result, final_content, db, ens, notcrew>>

\* callback(agent_complete), inside the same if
PComplete ==
    /\ ppc = "mark2"
    /\ sent' = sent (+) SetToBag({Ev("agent_complete", crew_agent_names[current_idx + 1],
                             NoProgress, "")})
    /\ ppc' = "outer"
    /\ UNCHANGED <<progress_controller, tasks_done, current_idx, progress, phase_index,
                   wait_count, restarts, advpc, adv_i>>
    /\ UNCHANGED <<pc, result, final_content, db, ens, notcrew>>

\* advance_to_next_agent
advance_to_next_agent(c) == [c EXCEPT !.current_agent_index = @ + 1]

\* advance_agents_periodically, one iteration that finds completed unset:
\* time.sleep(18), then the advance
AdvanceStep ==
    /\ advpc = "on"
    /\ adv_i < Len(crew_agent_names) - 1
    /\ ~progress_controller.completed
    /\ adv_i' = adv_i + 1
    /\ progress_controller' = advance_to_next_agent(progress_controller)
    /\ UNCHANGED <<tasks_done, ppc, current_idx, progress, phase_index, wait_count,
                   restarts, advpc>>
    /\ UNCHANGED <<pc, result, final_content, db, ens, sent, notcrew>>

\* the for-loop of advance_agents_periodically is over; completed is never
\* unset again, so the iterations that find it set change nothing and are
\* taken here in one step
AdvanceExit ==
    /\ advpc = "on"
    /\ adv_i = Len(crew_agent_names) - 1 \/ progress_controller.completed
    /\ advpc' = "exit"
    /\ UNCHANGED <<progress_controller, tasks_done, ppc, current_idx, progress,
                   phase_index, wait_count, restarts, adv_i>>
    /\ UNCHANGED <<pc, result, final_content, db, ens, sent, notcrew>>

\* the control flow of the three threads reads neither the input nor the mode
CrewInit ==
    /\ input = "t1"
    /\ mode = "analytical"
    /\ backend = [q \in QueriesOf("t1") |-> "hits"]
    /\ cache = [q \in Queries |-> Empty]
    /\ pass = 0
    /\ frontier = {}
    /\ nstat = IdleStat
    /\ gstate = initial_state
    /\ writes = <<>>
    /\ updates = <<>>
    /\ completed_nodes = {}
    /\ result = Empty
    /\ pc = "k_begin"
    /\ progress_state = [current_agents |-> {}, completed_agents |-> {}, running |-> TRUE]
    /\ final_content = Empty
    /\ db = {}
    /\ ens = 1
    /\ apc = "off"    \* CrewService does not start run_progress_animation
    /\ snapshot = {}
    /\ agent_progress = [a \in {agent_names[i] : i \in 1..Len(agent_names)} |-> 0]
    /\ agent_phase = [a \in {agent_names[i] : i \in 1..Len(agent_names)} |-> 0]
    /\ pending = Ev("none", NoAgent, NoProgress, "")
    /\ log = <<>>
    /\ sent = EmptyBag
    /\ state1 = initial_state
    /\ state2 = initial_state
    /\ failedNode = "none"
    /\ everStarted = {}
    /\ nruns = [n \in Nodes |-> 0]
    /\ TransportInit
    /\ deleted = {}
    /\ OtherIdle
    /\ CrewIdle
    /\ LoopIdle
    /\ ModulesIdle

CrewNext ==
    \/ StartProgressThread
    \/ StartAdvanceThread
    \/ KickoffTask
    \/ KickoffReturn
    \/ KMarkCompleted
    \/ KClearRunning
    \/ KEnsure
    \/ KEmitHumanizing
    \/ KHumanize
    \/ KEmitHighlighting
    \/ KHighlight
    \/ KSave
    \/ KFail
    \/ KEmitComplete
    \/ KEmitError
    \/ POuter
    \/ PStart
    \/ PAnimTest
    \/ PAnimStep
    \/ PWait
    \/ PMark
    \/ PComplete
    \/ AdvanceStep
    \/ AdvanceExit

CrewSpec == CrewInit /\ [][CrewNext]_vars

(***************************************************************************)
(* ServicesSpec: one generate_research call of either service, the         *)
(* LangGraph one (ResearchService) or the CrewAI one (CrewService).        *)
(***************************************************************************)
ServicesInit == Init \/ CrewInit

ServicesNext == Next \/ CrewNext

ServicesSpec == ServicesInit /\ [][ServicesNext]_vars

(***************************************************************************)
(* LoopSpec: the script 5-looping-graph.py.  It builds a graph whose node  *)
(* "random" leads back to itself through a conditional edge, compiles it   *)
(* and invokes it once.                                                    *)
(***************************************************************************)
LoopNodes == {"greeting", "random"}
LoopEdges == { <<"START", "greeting">>, <<"greeting", "random">> }

\* add_conditional_edges("random", should_continue, {"loop": "random", END: END})
LoopPathMap == [loop |-> "random", END |-> "END"]

\* every edge the graph can follow
LoopAllEdges == LoopEdges \cup { <<"random", LoopPathMap[k]>> : k \in DOMAIN LoopPathMap }

RECURSIVE LoopReach(_)
LoopReach(S) ==
    LET T == S \cup { e[2] : e \in { f \in LoopAllEdges : f[1] \in S } }
    IN  IF T = S THEN S ELSE LoopReach(T)

\* some node can be reached from itself
LoopHasCycle ==
    \E n \in LoopNodes :
        n \in LoopReach({ e[2] : e \in { f \in LoopAllEdges : f[1] = n } })

\* the edges name known nodes and the graph has an entry point
LoopWellFormed ==
    /\ \A e \in LoopAllEdges :
          e[1] \in LoopNodes \cup {"START"} /\ e[2] \in LoopNodes \cup {"END"}
    /\ \E e \in LoopAllEdges : e[1] = "START"

\* a compile step that refuses a graph with a cycle
CompileRejectsCycles == LoopWellFormed /\ ~LoopHasCycle

\* graph.compile() of the script: the script goes on to invoke the app
CompileAccepts == LoopWellFormed

RandLo == 0
RandHi == 10
LoopLimit == 5

\* the argument of app.invoke
LoopInput == [name |-> <<"Vivek">>, number |-> <<>>, counter |-> 0]

\* app = graph.compile()
LCompile ==
    /\ lpc = "build"
    /\ lpc' = IF CompileAccepts THEN "compiled" ELSE "rejected"
    /\ UNCHANGED <<lstate, rvars, tvars, deleted, ovars, kvars, sent, mvars>>

\* app.invoke({...}): START leads to greeting
LInvoke ==
    /\ lpc = "compiled"
    /\ lstate' = LoopInput
    /\ lpc' = "greeting"
    /\ UNCHANGED <<rvars, tvars, deleted, ovars, kvars, sent, mvars>>

greeting(st) ==
    [st EXCEPT !.name = <<"Hey">> \o @ \o <<"you are awesome!">>, !.counter = 0]

LGreeting ==
    /\ lpc = "greeting"
    /\ lstate' = greeting(lstate)
    /\ lpc' = "random"
    /\ UNCHANGED <<rvars, tvars, deleted, ovars, kvars, sent, mvars>>

\* random_node, r being random.randint(0, 10)
random_node(st, r) ==
    [st EXCEPT !.number = Append(@, r), !.counter = @ + 1]

LRandom ==
    /\ lpc = "random"
    /\ \E r \in RandLo..RandHi : lstate' = random_node(lstate, r)
    /\ lpc' = "route"
    /\ UNCHANGED <<rvars, tvars, deleted, ovars, kvars, sent, mvars>>

should_continue(st) == IF st.counter < LoopLimit THEN "loop" ELSE "END"

\* the conditional edge out of "random"
LRoute ==
    /\ lpc = "route"
    /\ lpc' = IF LoopPathMap[should_continue(lstate)] = "END" THEN "end"
              ELSE LoopPathMap[should_continue(lstate)]
    /\ UNCHANGED <<lstate, rvars, tvars, deleted, ovars, kvars, sent, mvars>>

LoopInit ==
    /\ input = "t1"
    /\ mode = "analytical"
    /\ backend = [q \in QueriesOf("t1") |-> "hits"]
    /\ cache = [q \in Queries |-> Empty]
    /\ pass = 0
    /\ frontier = {}
    /\ nstat = IdleStat
    /\ gstate = initial_state
    /\ writes = <<>>
    /\ updates = <<>>
    /\ completed_nodes = {}
    /\ result = Empty
    /\ pc = "begin"
    /\ progress_state = [current_agents |-> {}, completed_agents |-> {}, running |-> TRUE]
    /\ final_content = Empty
    /\ db = {}
    /\ ens = 1
    /\ apc = "loop"
    /\ snapshot = {}
    /\ agent_progress = [a \in {agent_names[i] : i \in 1..Len(agent_names)} |-> 0]
    /\ agent_phase = [a \in {agent_names[i] : i \in 1..Len(agent_names)} |-> 0]
    /\ pending = Ev("none", NoAgent, NoProgress, "")
    /\ log = <<>>
    /\ state1 = initial_state
    /\ state2 = initial_state
    /\ failedNode = "none"
    /\ everStarted = {}
    /\ nruns = [n \in Nodes |-> 0]
    /\ TransportInit
    /\ deleted = {}
    /\ sent = EmptyBag
    /\ OtherIdle
    /\ CrewIdle
    /\ lpc = "build"
    /\ lstate = LoopInput
    /\ ModulesIdle

LoopNext ==
    \/ LCompile
    \/ LInvoke
    \/ LGreeting
    \/ LRandom
    \/ LRoute

LoopSpec == LoopInit /\ [][LoopNext]_vars

(***************************************************************************)
(* ChatSpec: SupportAgent.chat of support_agent.py, one call.  Each attempt *)
(* generates a response (_generate_response on a copy of messages) and has  *)
(* it evaluated by ResponseEvaluator.evaluate; both outcomes are the LLM's, *)
(* drawn from small sets.                                                   *)
(***************************************************************************)
max_retries == 3

\* what _generate_response can return: message.content, which is None when
\* the last completion was a tool call, or a text, possibly empty
Responses == {PyNone, "", "r1", "r2"}

\* the JSON the evaluator LLM can answer with: 'score' may be missing
NoScore == 0 - 1
Scores == {NoScore, 0, 4, 8}
EvalAnswers == [is_acceptable : BOOLEAN, score : Scores]

\* ResponseEvaluator.evaluate: the parsed answer, or the fixed verdict when
\* the call or the parsing raises
evaluate(raises, answer) ==
    IF raises THEN [is_acceptable |-> TRUE, score |-> 5] ELSE answer

\* evaluation.get('score', 0)
ScoreOf(evaluation) == IF evaluation.score = NoScore THEN 0 ELSE evaluation.score

\* a comparison that lets a later attempt with an equal score win
BetterOrEqual(score, best) == score >= best

\* "if score > best_score"
Better(score, best) == score > best

\* truth value of a str-or-None operand of "or"
Truthy(v) == v # PyNone /\ v # ""

Apology == "I apologize, I'm having trouble answering that."

\* response = self._generate_response(messages.copy())
ChatGenerate ==
    /\ chat_pc = "generate"
    /\ \E r \in Responses : response' = r
    /\ chat_pc' = "evaluate"
    /\ UNCHANGED <<attempt, best_response, best_score, feedbacks, attempts, chat_returned>>
    /\ UNCHANGED notchat

\* the completion call of _generate_response raises: chat has no handler
ChatGenerateRaises ==
    /\ chat_pc = "generate"
    /\ chat_pc' = "raised"
    /\ UNCHANGED <<attempt, response, best_response, best_score, feedbacks, attempts,
                   chat_returned>>
    /\ UNCHANGED notchat

\* the rest of the loop body: evaluate, track the best response, return the
\* response if acceptable, else append the feedback (but for the last
\* attempt) and go round
ChatEvaluate ==
    /\ chat_pc = "evaluate"
    /\ \E raises \in BOOLEAN, answer \in EvalAnswers :
         LET evaluation == evaluate(raises, answer)
             score == ScoreOf(evaluation)
         IN  /\ attempts' = Append(attempts, [response |-> response, score |-> score,
                                             is_acceptable |-> evaluation.is_acceptable])
             /\ IF Better(score, best_score)
                THEN best_score' = score /\ best_response' = response
                ELSE UNCHANGED <<best_score, best_response>>
             /\ IF evaluation.is_acceptable
                THEN /\ chat_returned' = response
                     /\ chat_pc' = "done"
                     /\ UNCHANGED <<attempt, feedbacks>>
                ELSE /\ feedbacks' = IF attempt < max_retries - 1
                                     THEN feedbacks + 1 ELSE feedbacks
                     /\ attempt' = attempt + 1
                     /\ chat_pc' = IF attempt + 1 < max_retries
                                   THEN "generate" ELSE "exhausted"
                     /\ UNCHANGED chat_returned
    /\ UNCHANGED response
    /\ UNCHANGED notchat

\* return best_response or "I apologize, ..."
ChatReturnBest ==
    /\ chat_pc = "exhausted"
    /\ chat_returned' = IF Truthy(best_response) THEN best_response ELSE Apology
    /\ chat_pc' = "done"
    /\ UNCHANGED <<attempt, response, best_response, best_score, feedbacks, attempts>>
    /\ UNCHANGED notchat

\* no request is being served and no script is running
OutsideIdle ==
    /\ input = "t1"
    /\ mode = "analytical"
    /\ backend = [q \in QueriesOf("t1") |-> "hits"]
    /\ PipelineIdle
    /\ TransportInit
    /\ deleted = {}
    /\ sent = EmptyBag
    /\ OtherIdle
    /\ CrewIdle
    /\ LoopIdle

ChatInit ==
    /\ OutsideIdle
    /\ chat_pc = "generate"
    /\ attempt = 0
    /\ response = PyNone
    /\ best_response = PyNone
    /\ best_score = 0
    /\ feedbacks = 0
    /\ attempts = <<>>
    /\ chat_returned = PyNone
    /\ AgentIdle
    /\ TicketIdle
    /\ StreamIdle

ChatNext ==
    \/ ChatGenerate
    \/ ChatGenerateRaises
    \/ ChatEvaluate
    \/ ChatReturnBest

ChatSpec == ChatInit /\ [][ChatNext]_vars

(***************************************************************************)
(* AgentSpec: the tool-execution loops.  kind says which one runs:          *)
(*   "career"   CareerAgent.chat              (career_agent.py)             *)
(*   "support"  SupportAgent._generate_response (support_agent.py)          *)
(*   "agent"    Agent.run, with Agent.reset   (05_production_agent.py)      *)
(*   "react"    react_agent                   (03_react_agent.py)           *)
(*   "tutorial" ProductionAgent.chat          (complete_tutorial.py)        *)
(* The completion call is the LLM's choice: a final answer, a list of tool  *)
(* calls, or an API error.  A tool call names a tool that is in the         *)
(* registry or not, carries arguments that are JSON or not, and the tool    *)
(* function it reaches returns or raises.  messages holds the roles of the  *)
(* messages, the content of the tool messages is in fed.                    *)
(***************************************************************************)
AgentKinds == {"career", "support", "agent", "react", "tutorial"}
ChatKinds == {"career", "support", "tutorial"}

max_iterations == 5
max_steps == 5

MaxTurns == 3
MaxRuns == 3
MaxToolCalls == 2
\* llm_calls stops counting at MaxCalls, messages keeps its last MaxMessages entries
MaxCalls == 12
MaxMessages == 8

ToolCallKinds ==
    { [name |-> "known",   arguments |-> "json",      raises |-> FALSE],
      [name |-> "known",   arguments |-> "json",      raises |-> TRUE],
      [name |-> "known",   arguments |-> "malformed", raises |-> FALSE],
      [name |-> "unknown", arguments |-> "json",      raises |-> FALSE],
      [name |-> "unknown", arguments |-> "malformed", raises |-> FALSE] }

\* the lists of 1..n tool calls
ToolCallLists(n) ==
    UNION { [1..k -> ToolCallKinds] : k \in 1..n }

SorryError == "Sorry, I encountered an error"
SorrySteps == "Sorry, I couldn't complete the task in the allowed steps."
MaxStepsMsg == "Max steps reached without completion"

Remember(msgs) ==
    IF Len(msgs) > MaxMessages
    THEN SubSeq(msgs, Len(msgs) - MaxMessages + 1, Len(msgs))
    ELSE msgs

\* the test of the loop: "while not done and iteration < max_iterations",
\* "for turn in range(self.max_turns)", "for step in range(max_steps)",
\* "while not done"
LoopGoesOn ==
    CASE kind \in {"career", "support"} -> ~done /\ iteration < max_iterations
      [] kind = "agent"                 -> iteration < max_turns
      [] kind = "react"                 -> iteration < max_steps
      [] OTHER                          -> ~done

\* one tool call c dispatched by the loop of kind k: json.loads of the
\* arguments, the lookup of the name, the call of the tool function
Dispatch(k, c) ==
    IF c.arguments = "malformed"
    THEN [outcome |-> "raised", content |-> "none", cause |-> "json"]
    ELSE IF c.name = "unknown"
    THEN IF k = "react"
         THEN [outcome |-> "raised", content |-> "none", cause |-> "unknown_tool"]
         ELSE [outcome |-> "value", content |-> "Unknown tool", cause |-> "none"]
    ELSE IF c.raises
    THEN IF k = "agent"
         THEN [outcome |-> "value", content |-> "Error executing", cause |-> "none"]
         ELSE [outcome |-> "raised", content |-> "none", cause |-> "tool"]
    ELSE [outcome |-> "value", content |-> "result", cause |-> "none"]

AgentResting == agent_pc \in {"idle", "returned", "raised"}

\* the function is called: chat(message, []), run(user_message), react_agent(task)
AgentStart ==
    /\ AgentResting
    /\ runs < MaxRuns
    /\ kind = "agent" \/ runs = 0
    /\ runs' = runs + 1
    /\ conversation_history' =
          IF kind = "agent" THEN Append(conversation_history, "user")
          ELSE conversation_history
    /\ messages' =
          IF kind = "agent" THEN Remember(<<"system">> \o Append(conversation_history, "user"))
          ELSE <<"system", "user">>
    /\ iteration' = 0
    /\ done' = FALSE
    /\ tool_calls' = <<>>
    /\ last_content' = PyNone
    /\ agent_returned' = PyNone
    /\ raise_cause' = "none"
    /\ llm_calls' = 0
    /\ fed' = {}
    /\ agent_pc' = "loop"
    /\ UNCHANGED <<kind, max_turns, dispatches>>
    /\ UNCHANGED notagent

\* Agent.reset
AgentReset ==
    /\ kind = "agent"
    /\ AgentResting
    /\ conversation_history # <<>>
    /\ conversation_history' = <<>>
    /\ UNCHANGED <<kind, max_turns, agent_pc, iteration, done, messages, tool_calls,
                   last_content, agent_returned, raise_cause, llm_calls, runs, fed,
                   dispatches>>
    /\ UNCHANGED notagent

\* the loop test succeeds and the completion call is made
AgentCall ==
    /\ agent_pc = "loop"
    /\ LoopGoesOn
    /\ iteration' = IF kind = "tutorial" THEN iteration ELSE iteration + 1
    /\ llm_calls' = Min(llm_calls + 1, MaxCalls)
    /\ \/ \* the call raises: Agent.run returns its apology, the others have no handler
          /\ IF kind = "agent"
             THEN /\ agent_returned' = SorryError
                  /\ agent_pc' = "returned"
                  /\ UNCHANGED raise_cause
             ELSE /\ agent_pc' = "raised"
                  /\ raise_cause' = "api"
                  /\ UNCHANGED agent_returned
          /\ UNCHANGED <<conversation_history, done, messages, tool_calls, last_content>>
       \/ \* a final answer
          /\ last_content' = "answer"
          /\ IF kind = "agent"
             THEN /\ conversation_history' = Append(conversation_history, "assistant")
                  /\ agent_returned' = "answer"
                  /\ agent_pc' = "returned"
                  /\ UNCHANGED done
             ELSE IF kind = "react"
             THEN /\ agent_returned' = "answer"
                  /\ agent_pc' = "returned"
                  /\ UNCHANGED <<conversation_history, done>>
             ELSE /\ done' = TRUE
                  /\ UNCHANGED <<conversation_history, agent_returned, agent_pc>>
          /\ UNCHANGED <<messages, tool_calls, raise_cause>>
       \/ \* tool calls; Agent.run and react_agent append the assistant message here
          /\ \E tc \in ToolCallLists(MaxToolCalls) : tool_calls' = tc
          /\ last_content' = PyNone
          /\ messages' = IF kind \in ChatKinds THEN messages
                         ELSE Remember(Append(messages, "assistant"))
          /\ agent_pc' = "tools"
          /\ UNCHANGED <<conversation_history, done, agent_returned, raise_cause>>
    /\ UNCHANGED <<kind, max_turns, runs, fed, dispatches>>
    /\ UNCHANGED notagent

\* one iteration of "for tool_call in tool_calls": the dispatch, and the
\* tool message appended to messages (the chat loops append message_obj too)
AgentExecTool ==
    /\ agent_pc = "tools"
    /\ tool_calls # <<>>
    /\ LET c == Head(tool_calls)
           r == Dispatch(kind, c)
       IN  /\ dispatches' = dispatches \cup
                  {[kind |-> kind, name |-> c.name, arguments |-> c.arguments,
                    outcome |-> r.outcome, content |-> r.content]}
           /\ IF r.outcome = "raised"
              THEN /\ agent_pc' = "raised"
                   /\ raise_cause' = r.cause
                   /\ tool_calls' = <<>>
                   /\ UNCHANGED <<messages, fed>>
              ELSE /\ messages' =
                        Remember(messages \o (IF kind \in ChatKinds
                                              THEN <<"assistant", "tool">>
                                              ELSE <<"tool">>))
                   /\ fed' = fed \cup {r.content}
                   /\ tool_calls' = Tail(tool_calls)
                   /\ agent_pc' = IF Tail(tool_calls) = <<>> THEN "loop" ELSE "tools"
                   /\ UNCHANGED raise_cause
    /\ UNCHANGED <<kind, max_turns, conversation_history, iteration, done, last_content,
                   agent_returned, llm_calls, runs>>
    /\ UNCHANGED notagent

\* the loop is over: the chat loops return the content of the last completion,
\* Agent.run and react_agent their fixed messages
AgentLoopExit ==
    /\ agent_pc = "loop"
    /\ ~LoopGoesOn
    /\ agent_returned' =
          CASE kind = "agent" -> SorrySteps
            [] kind = "react" -> MaxStepsMsg
            [] OTHER          -> last_content
    /\ agent_pc' = "returned"
    /\ UNCHANGED <<kind, max_turns, conversation_history, iteration, done, messages,
                   tool_calls, last_content, raise_cause, llm_calls, runs, fed,
                   dispatches>>
    /\ UNCHANGED notagent

AgentInit ==
    /\ OutsideIdle
    /\ ChatIdle
    /\ kind \in AgentKinds
    /\ max_turns \in 1..MaxTurns
    /\ kind # "agent" => max_turns = 1
    /\ conversation_history = <<>>
    /\ agent_pc = "idle"
    /\ iteration = 0
    /\ done = FALSE
    /\ messages = <<>>
    /\ tool_calls = <<>>
    /\ last_content = PyNone
    /\ agent_returned = PyNone
    /\ raise_cause = "none"
    /\ llm_calls = 0
    /\ runs = 0
    /\ fed = {}
    /\ dispatches = {}
    /\ TicketIdle
    /\ StreamIdle

\* the steps of a running loop
AgentStep == AgentCall \/ AgentExecTool \/ AgentLoopExit

AgentNext ==
    \/ AgentStart
    \/ AgentReset
    \/ AgentCall
    \/ AgentExecTool
    \/ AgentLoopExit

AgentSpec == AgentInit /\ [][AgentNext]_vars

\* a called function keeps running: the interpreter executes its next statement
AgentFairSpec == AgentInit /\ [][AgentNext]_vars /\ WF_vars(AgentStep)

(***************************************************************************)
(* TicketSpec: create_support_ticket of support_agent.py, called from the   *)
(* chat sessions of the Gradio interface, each served by its own thread.    *)
(* The module globals TICKET_ID and TICKETS are shared and there is no      *)
(* lock; a thread can be switched out between two bytecodes, so every read  *)
(* and every write of a global is a step of its own.                        *)
(***************************************************************************)
MaxTickets == 2

\* the call, and the first half of "TICKET_ID += 1": the global is read
TicketLoad(t) ==
    /\ ticket_pc[t] = "idle"
    /\ ticket_calls[t] < MaxTickets
    /\ ticket_calls' = [ticket_calls EXCEPT ![t] = @ + 1]
    /\ loaded' = [loaded EXCEPT ![t] = TICKET_ID]
    /\ ticket_pc' = [ticket_pc EXCEPT ![t] = "store"]
    /\ UNCHANGED <<TICKET_ID, TICKETS, ticket, ticket_returns>>
    /\ UNCHANGED notticket

\* the second half: the sum is written back
TicketStore(t) ==
    /\ ticket_pc[t] = "store"
    /\ TICKET_ID' = loaded[t] + 1
    /\ ticket_pc' = [ticket_pc EXCEPT ![t] = "build"]
    /\ UNCHANGED <<TICKETS, loaded, ticket, ticket_calls, ticket_returns>>
    /\ UNCHANGED notticket

\* ticket = {"id": TICKET_ID, ...}
TicketBuild(t) ==
    /\ ticket_pc[t] = "build"
    /\ ticket' = [ticket EXCEPT ![t] = TICKET_ID]
    /\ ticket_pc' = [ticket_pc EXCEPT ![t] = "append"]
    /\ UNCHANGED <<TICKET_ID, TICKETS, loaded, ticket_calls, ticket_returns>>
    /\ UNCHANGED notticket

\* TICKETS.append(ticket); the print that follows changes nothing
TicketAppend(t) ==
    /\ ticket_pc[t] = "append"
    /\ TICKETS' = Append(TICKETS, ticket[t])
    /\ ticket_pc' = [ticket_pc EXCEPT ![t] = "return"]
    /\ UNCHANGED <<TICKET_ID, loaded, ticket, ticket_calls, ticket_returns>>
    /\ UNCHANGED notticket

\* return {"ticket_id": TICKET_ID, ...}
TicketReturn(t) ==
    /\ ticket_pc[t] = "return"
    /\ ticket_returns' = ticket_returns \cup
          {[session |-> t, call |-> ticket_calls[t], stored |-> ticket[t],
            ticket_id |-> TICKET_ID]}
    /\ ticket_pc' = [ticket_pc EXCEPT ![t] = "idle"]
    /\ UNCHANGED <<TICKET_ID, TICKETS, loaded, ticket, ticket_calls>>
    /\ UNCHANGED notticket

TicketInit ==
    /\ OutsideIdle
    /\ ChatIdle
    /\ AgentIdle
    /\ TicketIdle
    /\ StreamIdle

TicketNext ==
    \/ \E t \in Sessions : TicketLoad(t)
    \/ \E t \in Sessions : TicketStore(t)
    \/ \E t \in Sessions : TicketBuild(t)
    \/ \E t \in Sessions : TicketAppend(t)
    \/ \E t \in Sessions : TicketReturn(t)

TicketSpec == TicketInit /\ [][TicketNext]_vars

(***************************************************************************)
(* StreamSpec: TransformerService.transform_stream of transformer.py, an    *)
(* async generator; out is what it has yielded.  A text is the sequence of  *)
(* its characters, "+=" is concatenation.  The chunks come from             *)
(* llm.generate_stream, which can raise at any point; the hashtags come     *)
(* from llm.generate inside a try.                                          *)
(***************************************************************************)
MaxChunks == 2

Variants == {"A", "B"}
Chunks == { <<"a">>, <<"b", "c">> }
\* the hashtag lists the parsing can give: none, or the tags of the answer
ParsedHashtags == { <<>>, <<"AI">> }
DefaultHashtags == <<"MonarchNetworth", "StockMarket", "IndianStocks">>
NoTags == <<"-">>

StreamEv(t, c, h) == [type |-> t, content |-> c, hashtags |-> h, variant |-> variant]
ChunkEv(t, c) == [type |-> t, content |-> c, hashtags |-> NoTags, variant |-> "-"]

\* an accumulator that keeps the last chunk only
KeepLastChunk(content, chunk) == chunk

\* linkedin_content += chunk, whatsapp_content += chunk
Accumulate(content, chunk) == content \o chunk

ChunksYielded(t) == Cardinality({i \in 1..Len(out) : out[i].type = t})

\* yield linkedin_start
YieldLinkedinStart ==
    /\ stream_pc = "begin"
    /\ out' = Append(out, StreamEv("linkedin_start", <<>>, NoTags))
    /\ stream_pc' = "linkedin"
    /\ UNCHANGED <<variant, linkedin_content, whatsapp_content, hashtags, hashtag_failed>>
    /\ UNCHANGED notstream

\* one iteration of the first "async for chunk": accumulate and yield
LinkedinChunk ==
    /\ stream_pc = "linkedin"
    /\ ChunksYielded("linkedin_chunk") < MaxChunks
    /\ \E chunk \in Chunks :
         /\ linkedin_content' = Accumulate(linkedin_content, chunk)
         /\ out' = Append(out, ChunkEv("linkedin_chunk", chunk))
    /\ UNCHANGED <<variant, stream_pc, whatsapp_content, hashtags, hashtag_failed>>
    /\ UNCHANGED notstream

\* the LLM stream is exhausted
LinkedinStreamEnd ==
    /\ stream_pc = "linkedin"
    /\ stream_pc' = "hashtags"
    /\ UNCHANGED <<variant, linkedin_content, whatsapp_content, hashtags, out,
                   hashtag_failed>>
    /\ UNCHANGED notstream

\* generate_stream raises (either channel): the exception leaves the generator
StreamRaises ==
    /\ stream_pc \in {"linkedin", "whatsapp"}
    /\ stream_pc' = "raised"
    /\ UNCHANGED <<variant, linkedin_content, whatsapp_content, hashtags, out,
                   hashtag_failed>>
    /\ UNCHANGED notstream

\* the try block: llm.generate and the parsing, or the except branch
GenerateHashtags ==
    /\ stream_pc = "hashtags"
    /\ \/ \E h \in ParsedHashtags : hashtags' = h /\ hashtag_failed' = FALSE
       \/ hashtags' = DefaultHashtags /\ hashtag_failed' = TRUE
    /\ stream_pc' = "linkedin_complete"
    /\ UNCHANGED <<variant, linkedin_content, whatsapp_content, out>>
    /\ UNCHANGED notstream

\* yield linkedin_complete
YieldLinkedinComplete ==
    /\ stream_pc = "linkedin_complete"
    /\ out' = Append(out, StreamEv("linkedin_complete", linkedin_content, hashtags))
    /\ stream_pc' = "whatsapp_start"
    /\ UNCHANGED <<variant, linkedin_content, whatsapp_content, hashtags, hashtag_failed>>
    /\ UNCHANGED notstream

\* yield whatsapp_start
YieldWhatsappStart ==
    /\ stream_pc = "whatsapp_start"
    /\ out' = Append(out, StreamEv("whatsapp_start", <<>>, NoTags))
    /\ stream_pc' = "whatsapp"
    /\ UNCHANGED <<variant, linkedin_content, whatsapp_content, hashtags, hashtag_failed>>
    /\ UNCHANGED notstream

\* one iteration of the second "async for chunk"
WhatsappChunk ==
    /\ stream_pc = "whatsapp"
    /\ ChunksYielded("whatsapp_chunk") < MaxChunks
    /\ \E chunk \in Chunks :
         /\ whatsapp_content' = Accumulate(whatsapp_content, chunk)
         /\ out' = Append(out, ChunkEv("whatsapp_chunk", chunk))
    /\ UNCHANGED <<variant, stream_pc, linkedin_content, hashtags, hashtag_failed>>
    /\ UNCHANGED notstream

\* the second stream is exhausted: yield whatsapp_complete
YieldWhatsappComplete ==
    /\ stream_pc = "whatsapp"
    /\ out' = Append(out, StreamEv("whatsapp_complete", whatsapp_content, NoTags))
    /\ stream_pc' = "done"
    /\ UNCHANGED <<variant, linkedin_content, whatsapp_content, hashtags, hashtag_failed>>
    /\ UNCHANGED notstream

\* yield done; the generator returns
YieldDone ==
    /\ stream_pc = "done"
    /\ out' = Append(out, StreamEv("done", <<>>, NoTags))
    /\ stream_pc' = "end"
    /\ UNCHANGED <<variant, linkedin_content, whatsapp_content, hashtags, hashtag_failed>>
    /\ UNCHANGED notstream

StreamInit ==
    /\ OutsideIdle
    /\ ChatIdle
    /\ AgentIdle
    /\ TicketIdle
    /\ variant \in Variants
    /\ stream_pc = "begin"
    /\ linkedin_content = <<>>
    /\ whatsapp_content = <<>>
    /\ hashtags = <<>>
    /\ out = <<>>
    /\ hashtag_failed = FALSE

StreamNext ==
    \/ YieldLinkedinStart
    \/ LinkedinChunk
    \/ LinkedinStreamEnd
    \/ StreamRaises
    \/ GenerateHashtags
    \/ YieldLinkedinComplete
    \/ YieldWhatsappStart
    \/ WhatsappChunk
    \/ YieldWhatsappComplete
    \/ YieldDone

StreamSpec == StreamInit /\ [][StreamNext]_vars

(***************************************************************************)
(* Vocabulary of the properties                                            *)
(***************************************************************************)
Started(n) == nstat[n] \in {"running", "done", "failed"}

\* position of the first event of type t for agent a in the log, 0 if none
RECURSIVE PosFrom(_, _, _)
PosFrom(i, t, a) ==
    IF i > Len(log) THEN 0
    ELSE IF log[i].type = t /\ log[i].agent = a THEN i
    ELSE PosFrom(i + 1, t, a)
Pos(t, a) == PosFrom(1, t, a)

Count(t) == Cardinality({i \in 1..Len(log) : log[i].type = t})

\* the stream pass saw the editor complete before the fact checker
EditorFirst ==
    /\ Pos("agent_complete", "Content Editor") > 0
    /\ Pos("agent_complete", "Fact Checker") > Pos("agent_complete", "Content Editor")

\* the stream pass saw the fact checker complete before the editor
FactCheckerFirst ==
    /\ Pos("agent_complete", "Fact Checker") > 0
    /\ Pos("agent_complete", "Content Editor") > Pos("agent_complete", "Fact Checker")

\* nodes reachable from n along the edges
RECURSIVE Reach(_)
Reach(S) == IF Succ(S) \subseteq S THEN S ELSE Reach(S \cup Succ(S))
Desc(n) == Reach(Succ({n}))

NoCache == [q \in Queries |-> Empty]

\* the State after the five nodes ran one after the other, fact checker
\* before editor, each on the State the previous one left
RefStep(s, n) == [s EXCEPT ![OutKey(n)] = NodeOutput(n, s, NoCache)]
RefFinal ==
    RefStep(RefStep(RefStep(RefStep(RefStep(initial_state,
        "strategist"), "writer"), "fact_checker"), "editor"), "merge")

\* the same for a call with input i and mode m
RefFinalOf(i, m) ==
    RefStep(RefStep(RefStep(RefStep(RefStep(InitialStateOf(i, m),
        "strategist"), "writer"), "fact_checker"), "editor"), "merge")

(***************************************************************************)
(* C1 -- fan-in: in every graph execution the merge node starts only when  *)
(* both fact_checker and editor have completed, whichever completed first. *)
(***************************************************************************)
C1_MergeAfterBoth ==
    Started("merge") => nstat["fact_checker"] = "done" /\ nstat["editor"] = "done"

\* merge is running, and the editor was the first of the two to complete
C1_Witness ==
    /\ pass = 1
    /\ nstat["merge"] = "running"
    /\ EditorFirst

(***************************************************************************)
(* C2 -- dependency order: writer starts only after strategist completed,  *)
(* fact_checker and editor start only after writer completed.              *)
(***************************************************************************)
C2_DependencyOrder ==
    /\ Started("writer") => nstat["strategist"] = "done"
    /\ Started("fact_checker") => nstat["writer"] = "done"
    /\ Started("editor") => nstat["writer"] = "done"

\* the editor has been launched while the fact checker has not
C2_Witness ==
    /\ nstat["editor"] = "running"
    /\ nstat["fact_checker"] = "pending"
    /\ nstat["writer"] = "done"

(***************************************************************************)
(* C3 -- fan-out: fact_checker and editor become ready together once the   *)
(* writer has completed, and while the run is live each of them can be     *)
(* launched whatever the other is doing (pending, running or done).        *)
(***************************************************************************)
C3_NoWaiting ==
    /\ (nstat["fact_checker"] = "idle") <=> (nstat["editor"] = "idle")
    /\ \A n \in {"fact_checker", "editor"} :
         (InRun /\ failedNode = "none" /\ nstat[n] = "pending")
            => ENABLED NodeStart(n)

\* both run at once in the invoke pass, after a stream pass in which the
\* editor completed first
C3_Witness ==
    /\ pass = 2
    /\ nstat["fact_checker"] = "running" /\ nstat["editor"] = "running"
    /\ EditorFirst

\* the other completion order: both run at once after a stream pass in which
\* the fact checker completed first
C3_WitnessOtherOrder ==
    /\ pass = 2
    /\ nstat["fact_checker"] = "running" /\ nstat["editor"] = "running"
    /\ FactCheckerFirst

(***************************************************************************)
(* C4 -- the final State of a graph execution does not depend on which of  *)
(* fact_checker and editor completed first: it is the State the nodes      *)
(* leave when run one after the other; it holds the seven keys, and final  *)
(* is the merge of a fact_checked and an edited value that were written.   *)
(***************************************************************************)
C4_OrderIndependent ==
    pass >= 2 =>
        /\ state1 = RefFinal
        /\ DOMAIN state1 = Keys
        /\ state1.fact_checked # Empty /\ state1.edited # Empty
        /\ state1.final = <<"merge(">> \o state1.fact_checked \o <<"|">>
                             \o state1.edited \o <<")">>
        /\ state1.input = <<input>> /\ state1.mode = <<mode>>

\* a stream pass has ended in which the editor completed first
C4_Witness ==
    /\ pass >= 2
    /\ EditorFirst
    /\ state1.final # Empty

(***************************************************************************)
(* C10 -- the two executions of the compiled graph that run_research makes *)
(* on the same initial State (stream, then invoke) end in the same State,  *)
(* although the second one finds the search cache filled by the first.     *)
(***************************************************************************)
C10_SameFinalState ==
    pass = 3 => state1 = state2

\* both executions ended, and the second one was served from the cache
C10_Witness ==
    /\ pass = 3
    /\ state2.final # Empty
    /\ \E q \in QueriesOf(input) : cache[q] # Empty

(***************************************************************************)
(* C5 -- if a pipeline node raises during generate_research, 'error' is    *)
(* emitted exactly once (at most once at any time, once when the call has  *)
(* returned), and no node depending directly or transitively on the failed *)
(* node was started or reported complete in that call.                     *)
(***************************************************************************)
C5_ErrorOnceNoDependents ==
    failedNode # "none" =>
        /\ Count("error") <= 1
        /\ (pc = "done" => Count("error") = 1)
        /\ \A n \in Desc(failedNode) :
              /\ n \notin everStarted
              /\ Pos("agent_complete", node_display_names[n]) = 0

(***************************************************************************)
(* C6 -- when a pipeline node fails the whole run fails, with no fallback  *)
(* to partial output: no 'complete' event is emitted, no row is stored,    *)
(* and the call ends with an 'error' event.                                *)
(***************************************************************************)
C6_NoFallback ==
    failedNode # "none" =>
        /\ Count("complete") = 0
        /\ db = {}
        /\ pc \in {"run", "cb", "except", "done"}
        /\ (pc = "done" => Count("error") = 1)

\* the fact checker failed and the call has returned
C6_Witness ==
    /\ failedNode = "fact_checker"
    /\ pc = "done"
    /\ Pos("agent_complete", "Content Editor") > 0

(***************************************************************************)
(* C7 -- in the events handed to the callback, every agent_complete for an *)
(* agent is preceded by an agent_start for the same agent.                 *)
(***************************************************************************)
C7_StartBeforeComplete ==
    \A i \in 1..Len(log) :
        log[i].type = "agent_complete" =>
            \E j \in 1..(i - 1) :
                log[j].type = "agent_start" /\ log[j].agent = log[i].agent

(***************************************************************************)
(* C8 -- in a successful run the 'complete' event is the last event handed *)
(* to the callback, whatever the interleaving of the main thread and the   *)
(* animation thread.                                                       *)
(***************************************************************************)
C8_CompleteIsLast ==
    \A i \in 1..Len(log) : log[i].type = "complete" => i = Len(log)

(***************************************************************************)
(* C9 -- no terminal event is lost by the SSE transport: when the stream   *)
(* has ended, every 'complete' or 'error' event that the run_crew thread   *)
(* put on the queue has been yielded.                                      *)
(***************************************************************************)
TerminalsIn(seq) == Cardinality({i \in 1..Len(seq) : seq[i] \in Terminal})

C9_TerminalDelivered ==
    cpc = "end" => TerminalsIn(event_queue) = 0

(***************************************************************************)
(* C11 -- two generate_research calls running at once on the one service   *)
(* and the one compiled graph do not interfere: each call's callback has   *)
(* received exactly the events of its own nodes, and the content each call *)
(* returns is the one a call alone computes from its input and mode.       *)
(***************************************************************************)
CompleteEvents(l) == {i \in 1..Len(l) : l[i].type = "agent_complete"}

C12_PersistedBeforeAnnounced ==
    \A i \in 1..Len(log) :
        log[i].type = "complete" =>
            \/ log[i].message \in deleted
            \/ /\ get_research(log[i].message) # {}
               /\ \A row \in get_research(log[i].message) :
                     row.content = final_content /\ row.status = "complete"

\* 'complete' has been emitted and the row is there to be fetched
C12_Witness ==
    /\ Count("complete") = 1
    /\ get_research(research_id) # {}
    /\ research_id \notin deleted

(***************************************************************************)
(* C13 -- in run_sequential_progress, when the wait loop on an agent has   *)
(* run its MaxWait polls, the simulator moves on to the next agent: the    *)
(* agent it starts next has not been started before.                       *)
(***************************************************************************)
AgentStartEvent(i) == Ev("agent_start", crew_agent_names[i + 1], NoProgress, CrewPhaseMsg(0))

C13_ForceAdvance ==
    (ppc = "start" /\ wait_count = MaxWait) =>
        CopiesIn(AgentStartEvent(current_idx), sent) = 0

C15_EachNodeOnce ==
    \A n \in Nodes :
        /\ nruns[n] <= 1
        /\ pass = 3 => nruns[n] = 1

(***************************************************************************)
(* C16 -- CrewService: an agent_complete event for an agent has been sent  *)
(* only if that agent's task of the crew has finished.                     *)
(***************************************************************************)
AgentCompleteEvent(i) == Ev("agent_complete", crew_agent_names[i], NoProgress, "")

C16_CompleteAfterWork ==
    \A i \in 1..Len(crew_agent_names) :
        CopiesIn(AgentCompleteEvent(i), sent) > 0 => tasks_done >= i

(***************************************************************************)
(* C17 -- ResearchService: once agent_complete has been handed to the      *)
(* callback for an agent, no agent_progress event for that agent follows   *)
(* in the run, whatever the interleaving with the animation thread.        *)
(***************************************************************************)
C17_NoProgressAfterComplete ==
    \A i \in 1..Len(log) : \A j \in (i + 1)..Len(log) :
        log[i].type = "agent_complete" =>
            ~(log[j].type = "agent_progress" /\ log[j].agent = log[i].agent)

(***************************************************************************)
(* C18 -- CrewService: no agent of agent_names is sent agent_complete      *)
(* twice, and when 'complete' has been sent every agent has been sent      *)
(* agent_complete exactly once.                                            *)
(***************************************************************************)
C18_ExactlyOneComplete ==
    \A i \in 1..Len(crew_agent_names) :
        /\ CopiesIn(AgentCompleteEvent(i), sent) <= 1
        /\ CopiesIn(Ev("complete", NoAgent, NoProgress, research_id), sent) > 0
              => CopiesIn(AgentCompleteEvent(i), sent) = 1

(***************************************************************************)
(* C19 -- ResearchService: when generate_research has returned, on the     *)
(* success and on the error path alike, the running flag of the animation  *)
(* thread has been cleared, so that the thread stops emitting and exits.   *)
(***************************************************************************)
C19_RunningCleared ==
    pc = "done" => ~progress_state.running

(***************************************************************************)
(* C20 -- emitting an event never blocks: whatever the generator has       *)
(* taken off the queue so far, each put of the run_crew thread             *)
(* (collect_event, the error of the handler, the sentinel) can be done at  *)
(* once.                                                                   *)
(***************************************************************************)
C20_PutNeverBlocks ==
    /\ (tpc = "generate" /\ emitted < MaxEvents) => ENABLED GenEmit
    /\ tpc = "generate" => ENABLED GenTerminal
    /\ tpc = "raised" => ENABLED PutErrorInHandler
    /\ tpc = "returned" => ENABLED PutSentinel

\* the generator has taken nothing yet and every event of the run, the
\* terminal one and the sentinel are on the queue
C20_Witness ==
    /\ cpc = "get" /\ yielded = <<>>
    /\ Len(event_queue) = MaxEvents + 2
    /\ tpc = "finishing"

\* C21: under fair scheduling the stream of /api/generate ends, whatever way
\* the run_crew thread ends (return, caught exception, uncaught exception):
\* stream_events eventually leaves its polling loop.
C21_StreamEnds == <>(cpc = "end")

\* the loop was left through "not thread.is_alive()" after an uncaught
\* exception: no terminal event and no None was ever put
C21_Witness ==
    /\ cpc = "end"
    /\ tpc = "exited"
    /\ event_queue = <<>>
    /\ \A i \in 1..Len(yielded) : yielded[i] \notin Terminal

\* every event handed to the callback so far by either service, with the
\* simulated agent_progress event that is being or has just been handed over
EventsSoFar ==
    {log[i] : i \in 1..Len(log)} \cup BagToSet(sent)
PendingSimulated ==
    IF apc = "send" THEN {pending} ELSE {}
CrewSimulated ==
    IF ppc \in {"anim", "sleep"} /\ phase_index > 0 THEN {SimulatedEvent} ELSE {}
ProgressEvents ==
    {e \in EventsSoFar \cup PendingSimulated \cup CrewSimulated : e.type = "agent_progress"}
PostProcessingMsgs == {"Humanizing output...", "Adding highlights..."}
AllAgents ==
    {agent_names[i] : i \in 1..Len(agent_names)}
        \cup {crew_agent_names[i] : i \in 1..Len(crew_agent_names)}
\* how many times event e has been handed to the callback
TimesSent(e) == Cardinality({i \in 1..Len(log) : log[i] = e}) + CopiesIn(e, sent)
\* the progress-100 event of agent a has been sent and its agent_complete is next
CompletionPending(a) ==
    \/ pc = "cb" /\ a = node_display_names[CurUpdate]
    \/ ppc = "mark2" /\ a = crew_agent_names[current_idx + 1]

\* C22: every agent_progress event has a progress within 0..100; the
\* simulated ones stay at or below the cap (90 in the LangGraph service, 95
\* in the CrewAI service); and a progress of 100 comes only with a
\* post-processing message or paired with the agent_complete of the same agent.
C22_ProgressRange ==
    /\ \A e \in ProgressEvents :
         /\ e.progress \in 0..100
         /\ e.progress = 100 \/ e.progress <= CrewProgressCap
         /\ e.progress = 100 => e.message \in PostProcessingMsgs \cup {""}
    /\ \A e \in PendingSimulated : e.progress <= ProgressCap
    /\ \A i \in 1..Len(log) :
         log[i].type = "agent_progress" /\ log[i].progress # 100
            => log[i].progress <= ProgressCap
    /\ \A e \in CrewSimulated : e.progress <= CrewProgressCap
    /\ \A a \in AllAgents :
         TimesSent(Ev("agent_progress", a, 100, ""))
            = TimesSent(Ev("agent_complete", a, NoProgress, ""))
                + (IF CompletionPending(a) THEN 1 ELSE 0)

\* the CrewAI service has sent a progress of 100 with a completion, and the
\* simulated progress of a later agent has reached its cap
C22_Witness ==
    /\ ppc = "anim" /\ phase_index > 0
    /\ progress = CrewProgressCap
    /\ \E a \in AllAgents : CopiesIn(Ev("agent_progress", a, 100, ""), sent) > 0

\* the LangGraph service has sent a simulated progress at its cap and a
\* progress of 100
C22_WitnessLangGraph ==
    /\ \E i \in 1..Len(log) :
         log[i].type = "agent_progress" /\ log[i].progress = ProgressCap
    /\ \E i \in 1..Len(log) :
         log[i].type = "agent_progress" /\ log[i].progress = 100

\* the output key the pipeline's description gives each node
NodeKey ==
    [strategist |-> "research", writer |-> "draft", fact_checker |-> "fact_checked",
     editor |-> "edited", merge |-> "final"]
FinishedNow == {n \in frontier : nstat[n] = "done"}

\* C23: a node's partial update writes its own output key and nothing else:
\* the writes of a superstep are one per finished node, each under that node's
\* key; a key of the State differs from its initial value only if the node
\* that owns it has finished; and input and mode of the State, during the run
\* and in both final States, are the caller's.
C23_FrameOfUpdates ==
    /\ \A i \in 1..Len(writes) :
         \E n \in FinishedNow : writes[i].key = NodeKey[n]
    /\ pass \in {1, 2} =>
         \A n \in FinishedNow :
            Cardinality({i \in 1..Len(writes) : writes[i].key = NodeKey[n]}) = 1
    /\ \A k \in Keys :
         gstate[k] # initial_state[k]
            => \E n \in Nodes : NodeKey[n] = k /\ nstat[n] = "done"
    /\ \A s \in {gstate, state1, state2} :
         s.input = <<input>> /\ s.mode = <<mode>>

\* both runs are over and the final State holds all five outputs
C23_Witness ==
    /\ pass = 3
    /\ \A n \in Nodes : state2[NodeKey[n]] # Empty
    /\ state2.input = <<input>> /\ state2.mode = <<mode>>

\* the steps with no upstream step, and the steps that lead to END
EntrySteps == {n \in Nodes : ~\E m \in Nodes : <<m, n>> \in Edges}
LastSteps == {n \in Nodes : <<n, "END">> \in Edges}

\* C24: the research graph as built is well-formed: every edge joins
\* registered nodes (or START / END), no node is its own descendant,
\* strategist is the only step without an upstream step and the one START
\* leads to, every other step is reachable from it, only merge leads to END,
\* and the steps a run is at are steps of this graph.
C24_WellFormed ==
    /\ \A e \in Edges :
         /\ e[1] \in Nodes \cup {"START"}
         /\ e[2] \in Nodes \cup {"END"}
    /\ \A n \in Nodes : n \notin Desc(n)
    /\ EntrySteps = {"strategist"}
    /\ Succ({"START"}) = {"strategist"}
    /\ Reach({"strategist"}) = Nodes
    /\ LastSteps = {"merge"}
    /\ frontier \subseteq Reach({"strategist"})

\* the graph as built has been run from its entry step to END
C24_Witness ==
    /\ pc = "stop" /\ pass = 3
    /\ everStarted = Nodes
    /\ result # Empty

\* the attempts that were judged acceptable, and the best score reached
AcceptableAt == {i \in 1..Len(attempts) : attempts[i].is_acceptable}
TopScore ==
    IF attempts = <<>> THEN 0
    ELSE CHOOSE m \in {attempts[i].score : i \in 1..Len(attempts)} :
            \A i \in 1..Len(attempts) : attempts[i].score <= m
\* the earliest attempt with the best score
EarliestTop ==
    CHOOSE i \in 1..Len(attempts) :
        /\ attempts[i].score = TopScore
        /\ \A j \in 1..(i - 1) : attempts[j].score < TopScore
\* at most three attempts; the first acceptable one ends the call and is returned
FirstAcceptableWins ==
    /\ Len(attempts) <= 3
    /\ AcceptableAt \subseteq {Len(attempts)}
    /\ (chat_pc = "done" /\ AcceptableAt # {})
          => chat_returned = attempts[Len(attempts)].response
    /\ (chat_pc = "done" /\ AcceptableAt = {}) => Len(attempts) = 3

\* C25 as stated: ... and with no acceptable attempt the call returns the
\* response of the earliest attempt with the highest score, or the apology
\* when no attempt scored above 0.
C25_BestOrApology ==
    /\ FirstAcceptableWins
    /\ (chat_pc = "done" /\ AcceptableAt = {})
          => chat_returned = IF TopScore > 0 THEN attempts[EarliestTop].response
                             ELSE Apology

\* C25, amended: ... with no acceptable attempt the call returns the response
\* of the earliest attempt with the highest score if that response is a
\* non-empty text, and the apology when no attempt scored above 0 or that
\* response is None or empty.
C25_BestUnlessEmpty ==
    /\ FirstAcceptableWins
    /\ (chat_pc = "done" /\ AcceptableAt = {})
          => chat_returned = IF TopScore > 0 /\ Truthy(attempts[EarliestTop].response)
                             THEN attempts[EarliestTop].response
                             ELSE Apology

\* three attempts, none acceptable, the first two tied for the best score
\* with different responses: the earlier one is returned
C25_Witness ==
    /\ chat_pc = "done"
    /\ Len(attempts) = 3 /\ AcceptableAt = {}
    /\ attempts[1].score = TopScore /\ attempts[2].score = TopScore /\ TopScore > 0
    /\ attempts[1].response # attempts[2].response
    /\ chat_returned = attempts[1].response
    /\ Truthy(chat_returned)

AgentRunning == agent_pc \in {"loop", "tools"}

\* the limits on the completion calls of one run: 5 in CareerAgent.chat and
\* SupportAgent._generate_response, max_turns in Agent.run (which then returns
\* its fixed message), max_steps in react_agent
CallBounds ==
    /\ kind \in {"career", "support"} => llm_calls <= 5
    /\ kind = "agent" => llm_calls <= max_turns
    /\ kind = "react" => llm_calls <= max_steps
    /\ (kind = "agent" /\ agent_pc = "returned" /\ llm_calls = max_turns
          /\ last_content = PyNone /\ agent_returned # SorryError)
          => agent_returned = SorrySteps

\* C26: every tool-execution loop terminates: a loop that is running
\* eventually returns (or raises), whatever the model answers.
C26_LoopsTerminate == AgentRunning ~> AgentResting

\* C27: a tool call whose name is not in the registry (its arguments being
\* well-formed) gives an error value that is fed back as the tool's output;
\* the dispatch does not raise.
C27_UnknownToolIsValue ==
    \A d \in dispatches :
        (d.name = "unknown" /\ d.arguments = "json")
            => d.outcome = "value" /\ d.content = "Unknown tool"

\* the same for the loops other than react_agent
UnknownToolIsValueElsewhere ==
    \A d \in dispatches :
        (d.name = "unknown" /\ d.arguments = "json" /\ d.kind # "react")
            => d.outcome = "value" /\ d.content = "Unknown tool"

Alternating(h) ==
    \A i \in 1..Len(h) : h[i] = IF i % 2 = 1 THEN "user" ELSE "assistant"

\* C28: conversation_history alternates user, assistant, ...; it holds no
\* tool message; and once run has returned every user message in it has its
\* assistant reply.
C28_HistoryAlternates ==
    kind = "agent" =>
        /\ Alternating(conversation_history)
        /\ AgentResting => Len(conversation_history) % 2 = 0

\* what holds of conversation_history: user and assistant messages only,
\* and a reply only directly after a user message
HistoryRolesOnly ==
    /\ \A i \in 1..Len(conversation_history) :
         conversation_history[i] \in {"user", "assistant"}
    /\ \A i \in 1..Len(conversation_history) :
         conversation_history[i] = "assistant"
            => i > 1 /\ conversation_history[i - 1] = "user"

\* C29: the ids of the stored tickets are distinct and strictly increasing
\* from 1001, and each call returns the id of the ticket it stored.
C29_TicketIds ==
    /\ \A i \in 1..Len(TICKETS) : \A j \in 1..Len(TICKETS) :
          i < j => TICKETS[i] < TICKETS[j]
    /\ TICKETS # <<>> => TICKETS[1] = 1001
    /\ \A r \in ticket_returns : r.ticket_id = r.stored

\* the same while one session only has called
TicketIdsOneSession ==
    (ticket_calls["s2"] = 0) =>
        /\ \A i \in 1..Len(TICKETS) : TICKETS[i] = 1000 + i
        /\ \A r \in ticket_returns : r.ticket_id = r.stored

\* the event types that may follow an event of type t
MayFollow(t) ==
    CASE t = "linkedin_start"    -> {"linkedin_chunk", "linkedin_complete"}
      [] t = "linkedin_chunk"    -> {"linkedin_chunk", "linkedin_complete"}
      [] t = "linkedin_complete" -> {"whatsapp_start"}
      [] t = "whatsapp_start"    -> {"whatsapp_chunk", "whatsapp_complete"}
      [] t = "whatsapp_chunk"    -> {"whatsapp_chunk", "whatsapp_complete"}
      [] t = "whatsapp_complete" -> {"done"}
      [] OTHER                   -> {}
\* the concatenation of the contents of the events of type t among the first n
RECURSIVE ChunksBefore(_, _)
ChunksBefore(t, n) ==
    IF n = 0 THEN <<>>
    ELSE ChunksBefore(t, n - 1) \o (IF out[n].type = t THEN out[n].content ELSE <<>>)

\* C30: the events are yielded in the order linkedin_start, linkedin_chunk*,
\* linkedin_complete, whatsapp_start, whatsapp_chunk*, whatsapp_complete,
\* done; each *_complete event carries the concatenation of the chunks of
\* its channel yielded before it; a failed hashtag generation does not stop
\* the generator, the default hashtags are sent; and a generator that has
\* returned has yielded the whole sequence.
C30_StreamOrder ==
    /\ out # <<>> => out[1].type = "linkedin_start"
    /\ \A i \in 1..(Len(out) - 1) : out[i + 1].type \in MayFollow(out[i].type)
    /\ \A i \in 1..Len(out) :
         /\ out[i].type = "linkedin_complete"
               => out[i].content = ChunksBefore("linkedin_chunk", i)
         /\ out[i].type = "whatsapp_complete"
               => out[i].content = ChunksBefore("whatsapp_chunk", i)
         /\ (out[i].type = "linkedin_complete" /\ hashtag_failed)
               => out[i].hashtags = DefaultHashtags
    /\ hashtag_failed => stream_pc \notin {"hashtags", "linkedin"}
    /\ (stream_pc = "linkedin_complete" /\ hashtag_failed) => hashtags = DefaultHashtags
    /\ stream_pc = "end" =>
         /\ out[Len(out)].type = "done"
         /\ \A t \in {"linkedin_start", "linkedin_complete", "whatsapp_start",
                      "whatsapp_complete", "done"} : ChunksYielded(t) = 1

\* the hashtag call failed, both channels streamed two chunks, and the
\* generator went on to done
C30_Witness ==
    /\ stream_pc = "end"
    /\ hashtag_failed
    /\ ChunksYielded("linkedin_chunk") = 2
    /\ ChunksYielded("whatsapp_chunk") = 2
    /\ \E i \in 1..Len(out) :
         out[i].type = "linkedin_complete" /\ out[i].hashtags = DefaultHashtags

====
